---- MODULE Spec2Model ----
(***************************************************************************)
(* Nam088/nestjs-rabbitmq: the RPC correlation engine of RabbitMQService   *)
(* (src/src/services/rabbitmq.service.ts) and the liveness registry of     *)
(* ServiceDiscoveryService (src/src/services/service-discovery.service.ts).*)
(***************************************************************************)
EXTENDS Integers, Sequences, FiniteSets, TLC

(***************************************************************************)
(* Bounds of the model.                                                    *)
(***************************************************************************)
\* number of request() calls issued on the engine
MaxCalls == 2
\* number of distinct messages the broker delivers on the reply destination
MaxDeliveries == 2
\* the registry's clock runs from 0 to MaxTime, in units of the heartbeat interval
MaxTime == 4

\* the calls; call c carries the correlationId c (randomUUID() is fresh per call)
CallIds == 1..MaxCalls
\* a correlationId no call of this engine owns (a reply meant for another engine)
ForeignCorrelationId == 0

\* a key of rpcQueues that is not set
NoMap == 0

\* message bodies delivered on the reply destination (Buffers)
ReplyContents == {"{\"r\":1}", "pong"}
\* the delivery the broker makes when the consumer is cancelled
NullMessage == [correlationId |-> ForeignCorrelationId, content |-> "<null>"]

VARIABLES
    replyQueueInitialized, \* RabbitMQService.replyQueueInitialized
    rpcQueues,             \* rpcQueues.get('amq.rabbitmq.reply-to'): id of the inner Map, or NoMap
    mapObj,                \* the inner Map objects ever created: id -> set of correlationIds held
    callbackMap,           \* per call: the inner Map captured by the closure of request()
    issued,                \* number of request() calls made so far
    pc,                    \* per call: position inside request()
    timer,                 \* per call: state of the setTimeout deadline timer
    send,                  \* per call: state of the sendToQueue promise
    outcome,               \* per call: state of the promise returned to the caller
    setupBy,               \* the calls that invoked channel.consume on the reply destination
    subscriptions,         \* number of consumers established on the reply destination
    delivered,             \* the messages handed to the reply handler so far
    firstEvent             \* per call: the first terminal event that occurred for it

rpcVars == <<replyQueueInitialized, rpcQueues, mapObj, callbackMap, issued, pc, timer,
             send, outcome, setupBy, subscriptions, delivered, firstEvent>>

VARIABLES
    enabled,            \* options.enabled
    serviceTimeout,     \* options.serviceTimeout || 90000, in units of the heartbeat interval
    now,                \* the clock read by new Date()
    initPc,             \* position inside onModuleInit()
    initResult,         \* how onModuleInit() ended: "none", "disabled", "ok", "failed"
    destroyPc,          \* position inside onModuleDestroy()
    consuming,          \* handleServiceEvent is subscribed to the discovery queue
    services,           \* ServiceDiscoveryService.services: the Map, in insertion order
    isRegistered,       \* ServiceDiscoveryService.isRegistered
    heartbeatInterval,  \* the heartbeat setInterval handle: "unset" or "armed"
    cleanupInterval,    \* the sweep setInterval handle: "unset" or "armed"
    heartbeatDue,       \* next expiry of the heartbeat timer
    cleanupDue,         \* next expiry of the sweep timer
    pendingInfo,        \* the ServiceInfo built by registerService before its await
    busOps,             \* the RabbitMQService operations the registry has invoked
    published,          \* the types of the discovery events handed to publish()
    lastEvent,          \* the last discovery event given to handleServiceEvent
    sweepThrew,         \* an exception escaped the sweep timer callback
    destroyResult,      \* how the last onModuleDestroy call went: "none", "skipped" (the
                        \* guard returned), "pending", "stopped", "caught" (error logged)
    heartbeatLog,       \* the heartbeat publishes: whether one was rejected (and logged),
                        \* and the outcome of the last one
    routingKeyOptions,  \* options.registrationRoutingKey, heartbeatRoutingKey and
                        \* deregistrationRoutingKey, shared by the instances of a deployment
    lastBroadcast       \* the last event a peer published, and whether the exchange routed
                        \* it to this instance's queue

regVars == <<enabled, serviceTimeout, now, initPc, initResult, destroyPc, consuming, services,
             isRegistered, heartbeatInterval, cleanupInterval, heartbeatDue, cleanupDue,
             pendingInfo, busOps, published, lastEvent, sweepThrew, destroyResult,
             heartbeatLog, routingKeyOptions, lastBroadcast>>

busVars == <<routingKeyOptions, lastBroadcast>>

VARIABLES
    lastQuery           \* the last call of a query method of the registry: the method, its
                        \* argument and what it returned

VARIABLES
    delivery,           \* the message the bus last handed to a consumer callback: which
                        \* callback, the message, where the callback stands, how often the
                        \* handler was invoked, the replies sent and the acks and nacks issued
    deliveryCount       \* how many messages the bus has delivered so far

hdlVars == <<delivery, deliveryCount>>

VARIABLES
    closed              \* RabbitMQService.onModuleDestroy has run

extVars == <<lastQuery, hdlVars, closed>>

vars == <<rpcVars, regVars, extVars>>

----------------------------------------------------------------------------
(***************************************************************************)
(* Pure helpers of RabbitMQService.                                        *)
(***************************************************************************)

\* an optional field or argument: undefined, or given with a value
Omitted == [defined |-> FALSE]
Given(v) == [defined |-> TRUE, value |-> v]

\* deserializeMessage: JSON.parse of the text, the text itself when parsing throws
\* values are written as strings: a string stands for itself, any other value is
\* written Object{r:1}, Number(3), null, undefined, Date(0), Buffer(pong), BigInt(1)
IsJson(buffer) ==
    buffer \in {"{\"r\":1}", "3", "\"pong\"", "null", "\"1970-01-01T00:00:00.000Z\""}
JsonParse(buffer) ==
    CASE buffer = "{\"r\":1}" -> "Object{r:1}"
      [] buffer = "3" -> "Number(3)"
      [] buffer = "\"pong\"" -> "pong"
      [] buffer = "null" -> "null"
      [] buffer = "\"1970-01-01T00:00:00.000Z\"" -> "1970-01-01T00:00:00.000Z"
      [] OTHER -> "undefined"
deserializeMessage(buffer) == IF IsJson(buffer) THEN JsonParse(buffer) ELSE buffer

\* the promise of request(): pending until the first resolve/reject call
PendingPromise == [state |-> "pending", value |-> "none"]

\* faulty variant: a later resolve/reject replaces the settled result
SettleOverwrite(promise, state, value) == [state |-> state, value |-> value]

\* resolve(value) / reject(error) on the promise created in request()
Settle(promise, state, value) ==
    IF promise.state = "pending" THEN [state |-> state, value |-> value] ELSE promise

\* the keys held by the callback map registered for the reply queue
Callbacks == IF rpcQueues = NoMap THEN {} ELSE mapObj[rpcQueues]

\* faulty variant: the reply handler invokes whichever callback is stored
ReplyTargetsAny(callbacks, correlationId) == callbacks

\* reply handler, lines 134-140: the callbacks it invokes for a correlationId
ReplyTargets(callbacks, correlationId) ==
    IF correlationId \in callbacks THEN {correlationId} ELSE {}

\* clearTimeout(timeoutId): disarms an armed timer, no effect otherwise
clearTimeout(t) == IF t = "armed" THEN "cleared" ELSE t

\* history: remember the first terminal event of a call
NoteFirst(c, kind, value) ==
    IF firstEvent[c].state = "none"
    THEN [firstEvent EXCEPT ![c] = [state |-> kind, value |-> value]]
    ELSE firstEvent

----------------------------------------------------------------------------
InitRpc ==
    /\ replyQueueInitialized = FALSE
    /\ rpcQueues = NoMap
    /\ mapObj = <<>>
    /\ callbackMap = [c \in CallIds |-> NoMap]
    /\ issued = 0
    /\ pc = [c \in CallIds |-> "idle"]
    /\ timer = [c \in CallIds |-> "unset"]
    /\ send = [c \in CallIds |-> "none"]
    /\ outcome = [c \in CallIds |-> PendingPromise]
    /\ setupBy = {}
    /\ subscriptions = 0
    /\ delivered = {}
    /\ firstEvent = [c \in CallIds |-> [state |-> "none", value |-> "none"]]

\* faulty variant: getReplyQueue raises the flag only after channel.consume resolved
getReplyQueueLateFlag(c) ==
    IF subscriptions > 0
    THEN /\ pc' = [pc EXCEPT ![c] = "gotReplyQueue"]
         /\ UNCHANGED <<replyQueueInitialized, rpcQueues, mapObj, setupBy>>
    ELSE /\ replyQueueInitialized' = TRUE
         /\ IF rpcQueues = NoMap
            THEN /\ mapObj' = Append(mapObj, {})
                 /\ rpcQueues' = Len(mapObj) + 1
            ELSE UNCHANGED <<mapObj, rpcQueues>>
         /\ setupBy' = setupBy \cup {c}
         /\ pc' = [pc EXCEPT ![c] = "awaitConsume"]

\* getReplyQueue up to its first suspension point (lines 111-127)
getReplyQueue(c) ==
    IF replyQueueInitialized
    THEN /\ pc' = [pc EXCEPT ![c] = "gotReplyQueue"]
         /\ UNCHANGED <<replyQueueInitialized, rpcQueues, mapObj, setupBy>>
    ELSE /\ replyQueueInitialized' = TRUE
         /\ IF rpcQueues = NoMap
            THEN /\ mapObj' = Append(mapObj, {})
                 /\ rpcQueues' = Len(mapObj) + 1
            ELSE UNCHANGED <<mapObj, rpcQueues>>
         /\ setupBy' = setupBy \cup {c}
         /\ pc' = [pc EXCEPT ![c] = "awaitConsume"]

\* request(): the caller invokes it; runs to `await this.getReplyQueue()` (lines 434-438)
RequestStart(c) ==
    /\ pc[c] = "idle"
    /\ c = issued + 1
    /\ issued' = c
    /\ getReplyQueue(c)
    /\ UNCHANGED <<callbackMap, timer, send, outcome, subscriptions, delivered, firstEvent>>
    /\ UNCHANGED regVars
    /\ UNCHANGED extVars

\* channel.consume on the reply destination resolves: the consumer exists
ConsumeOk(c) ==
    /\ pc[c] = "awaitConsume"
    /\ subscriptions' = subscriptions + 1
    /\ pc' = [pc EXCEPT ![c] = "gotReplyQueue"]
    /\ UNCHANGED <<replyQueueInitialized, rpcQueues, mapObj, callbackMap, issued, timer,
                   send, outcome, setupBy, delivered, firstEvent>>
    /\ UNCHANGED regVars
    /\ UNCHANGED extVars

\* channel.consume rejects: getReplyQueue throws and request() rejects with it
ConsumeFail(c) ==
    /\ pc[c] = "awaitConsume"
    /\ pc' = [pc EXCEPT ![c] = "returned"]
    /\ outcome' = [outcome EXCEPT ![c] = Settle(@, "rejected", "Error: consume failed")]
    /\ firstEvent' = NoteFirst(c, "rejected", "Error: consume failed")
    /\ UNCHANGED <<replyQueueInitialized, rpcQueues, mapObj, callbackMap, issued, timer,
                   send, setupBy, subscriptions, delivered>>
    /\ UNCHANGED regVars
    /\ UNCHANGED extVars

\* the executor of the promise (lines 440-466): arm the timer, store the callback, send
RequestExecutor(c) ==
    /\ pc[c] = "gotReplyQueue"
    /\ pc' = [pc EXCEPT ![c] = "suspended"]
    /\ timer' = [timer EXCEPT ![c] = "armed"]
    /\ LET fresh == rpcQueues = NoMap
           m == IF fresh THEN Len(mapObj) + 1 ELSE rpcQueues
           objs == IF fresh THEN Append(mapObj, {}) ELSE mapObj
       IN /\ rpcQueues' = m
          /\ mapObj' = [objs EXCEPT ![m] = @ \cup {c}]
          /\ callbackMap' = [callbackMap EXCEPT ![c] = m]
    /\ send' = [send EXCEPT ![c] = "inflight"]
    /\ UNCHANGED <<replyQueueInitialized, issued, outcome, setupBy, subscriptions,
                   delivered, firstEvent>>
    /\ UNCHANGED regVars
    /\ UNCHANGED extVars

\* sendToQueue resolves (lines 467-469)
SendOk(c) ==
    /\ send[c] = "inflight"
    /\ send' = [send EXCEPT ![c] = "ok"]
    /\ UNCHANGED <<replyQueueInitialized, rpcQueues, mapObj, callbackMap, issued, pc, timer,
                   outcome, setupBy, subscriptions, delivered, firstEvent>>
    /\ UNCHANGED regVars
    /\ UNCHANGED extVars

\* faulty variant: the catch branch rejects without cleaning up
SendFailLeaks(c) ==
    /\ send[c] = "inflight"
    /\ send' = [send EXCEPT ![c] = "failed"]
    /\ outcome' = [outcome EXCEPT ![c] = Settle(@, "rejected", "Error: send failed")]
    /\ firstEvent' = NoteFirst(c, "rejected", "Error: send failed")
    /\ UNCHANGED <<replyQueueInitialized, rpcQueues, mapObj, callbackMap, issued, pc, timer,
                   setupBy, subscriptions, delivered>>
    /\ UNCHANGED regVars
    /\ UNCHANGED extVars

\* sendToQueue rejects: the catch branch (lines 470-478)
SendFail(c) ==
    /\ send[c] = "inflight"
    /\ send' = [send EXCEPT ![c] = "failed"]
    /\ timer' = [timer EXCEPT ![c] = clearTimeout(@)]
    /\ mapObj' = [mapObj EXCEPT ![callbackMap[c]] = @ \ {c}]
    /\ outcome' = [outcome EXCEPT ![c] = Settle(@, "rejected", "Error: send failed")]
    /\ firstEvent' = NoteFirst(c, "rejected", "Error: send failed")
    /\ UNCHANGED <<replyQueueInitialized, rpcQueues, callbackMap, issued, pc, setupBy,
                   subscriptions, delivered>>
    /\ UNCHANGED regVars
    /\ UNCHANGED extVars

\* faulty variant: the timeout callback rejects but leaves the entry in the map
TimerFiresLeaks(c) ==
    /\ timer[c] = "armed"
    /\ timer' = [timer EXCEPT ![c] = "fired"]
    /\ outcome' = [outcome EXCEPT ![c] = Settle(@, "rejected", "Error: RPC timeout")]
    /\ firstEvent' = NoteFirst(c, "rejected", "Error: RPC timeout")
    /\ UNCHANGED <<replyQueueInitialized, rpcQueues, mapObj, callbackMap, issued, pc, send,
                   setupBy, subscriptions, delivered>>
    /\ UNCHANGED regVars
    /\ UNCHANGED extVars

\* faulty variant: the timeout callback clears the whole callback map
TimerFiresClearsAll(c) ==
    /\ timer[c] = "armed"
    /\ timer' = [timer EXCEPT ![c] = "fired"]
    /\ IF rpcQueues = NoMap
       THEN UNCHANGED mapObj
       ELSE mapObj' = [mapObj EXCEPT ![rpcQueues] = {}]
    /\ outcome' = [outcome EXCEPT ![c] = Settle(@, "rejected", "Error: RPC timeout")]
    /\ firstEvent' = NoteFirst(c, "rejected", "Error: RPC timeout")
    /\ UNCHANGED <<replyQueueInitialized, rpcQueues, callbackMap, issued, pc, send, setupBy,
                   subscriptions, delivered>>
    /\ UNCHANGED regVars
    /\ UNCHANGED extVars

\* the deadline timer fires: the setTimeout callback (lines 441-447)
TimerFires(c) ==
    /\ timer[c] = "armed"
    /\ timer' = [timer EXCEPT ![c] = "fired"]
    /\ IF rpcQueues = NoMap
       THEN UNCHANGED mapObj
       ELSE mapObj' = [mapObj EXCEPT ![rpcQueues] = @ \ {c}]
    /\ outcome' = [outcome EXCEPT ![c] = Settle(@, "rejected", "Error: RPC timeout")]
    /\ firstEvent' = NoteFirst(c, "rejected", "Error: RPC timeout")
    /\ UNCHANGED <<replyQueueInitialized, rpcQueues, callbackMap, issued, pc, send, setupBy,
                   subscriptions, delivered>>
    /\ UNCHANGED regVars
    /\ UNCHANGED extVars

\* the correlationIds a delivered message can carry: one that was sent out, or a foreign one
KnownCorrelationIds == {c \in CallIds : send[c] # "none"} \cup {ForeignCorrelationId}

\* a message is delivered to the consumer of the reply destination (lines 129-148)
ReplyArrives(correlationId, content) ==
    /\ subscriptions > 0
    /\ correlationId \in KnownCorrelationIds
    /\ LET message == [correlationId |-> correlationId, content |-> content]
           response == deserializeMessage(content)
           hit == ReplyTargets(Callbacks, correlationId)
       IN /\ message \in delivered \/ Cardinality(delivered) < MaxDeliveries
          /\ delivered' = delivered \cup {message}
          /\ timer' = [c \in CallIds |-> IF c \in hit THEN clearTimeout(timer[c]) ELSE timer[c]]
          /\ outcome' = [c \in CallIds |->
                            IF c \in hit THEN Settle(outcome[c], "resolved", response)
                            ELSE outcome[c]]
          /\ mapObj' = IF hit = {} THEN mapObj
                       ELSE [mapObj EXCEPT ![rpcQueues] = @ \ {correlationId}]
          /\ firstEvent' = IF correlationId \in CallIds
                           THEN NoteFirst(correlationId, "resolved", response)
                           ELSE firstEvent
    /\ UNCHANGED <<replyQueueInitialized, rpcQueues, callbackMap, issued, pc, send, setupBy,
                   subscriptions>>
    /\ UNCHANGED regVars
    /\ UNCHANGED extVars

\* the broker delivers null (consumer cancelled): `if (!message) return` (line 130)
NullArrives ==
    /\ subscriptions > 0
    /\ delivered' = delivered \cup {NullMessage}
    /\ UNCHANGED <<replyQueueInitialized, rpcQueues, mapObj, callbackMap, issued, pc, timer,
                   send, outcome, setupBy, subscriptions, firstEvent>>
    /\ UNCHANGED regVars
    /\ UNCHANGED extVars

\* RabbitMQService.onModuleDestroy (lines 67-70): the outer map of the pending tables is
\* cleared, then the channel and the connection are closed, which ends the consumers
RabbitMQServiceOnModuleDestroy ==
    /\ ~closed
    /\ closed' = TRUE
    /\ rpcQueues' = NoMap
    /\ subscriptions' = 0
    /\ UNCHANGED <<replyQueueInitialized, mapObj, callbackMap, issued, pc, timer, send,
                   outcome, setupBy, delivered, firstEvent>>
    /\ UNCHANGED regVars
    /\ UNCHANGED <<lastQuery, hdlVars>>

\* the RPC engine up to and after the shutdown of its service
NextRpcShutdown ==
    \/ \E c \in CallIds : RequestStart(c)
    \/ \E c \in CallIds : ConsumeOk(c)
    \/ \E c \in CallIds : ConsumeFail(c)
    \/ \E c \in CallIds : RequestExecutor(c)
    \/ \E c \in CallIds : SendOk(c)
    \/ \E c \in CallIds : SendFail(c)
    \/ \E c \in CallIds : TimerFires(c)
    \/ \E c \in CallIds \cup {ForeignCorrelationId}, content \in ReplyContents :
           ReplyArrives(c, content)
    \/ NullArrives
    \/ RabbitMQServiceOnModuleDestroy

NextRpc ==
    \/ \E c \in CallIds : RequestStart(c)
    \/ \E c \in CallIds : ConsumeOk(c)
    \/ \E c \in CallIds : ConsumeFail(c)
    \/ \E c \in CallIds : RequestExecutor(c)
    \/ \E c \in CallIds : SendOk(c)
    \/ \E c \in CallIds : SendFail(c)
    \/ \E c \in CallIds : TimerFires(c)
    \/ \E c \in CallIds \cup {ForeignCorrelationId}, content \in ReplyContents :
           ReplyArrives(c, content)
    \/ NullArrives

----------------------------------------------------------------------------
(***************************************************************************)
(* Consumer callbacks: RabbitMQService.consume and the RPC handlers that   *)
(* RabbitMQCoreModule registers (src/src/rabbitmq-core.module.ts).         *)
(***************************************************************************)
\* JSON.stringify of a value; "TypeError" when it throws
JsonStringify(value) ==
    CASE value = "Object{r:1}" -> "{\"r\":1}"
      [] value = "Number(3)" -> "3"
      [] value = "pong" -> "\"pong\""
      [] value = "null" -> "null"
      [] value = "Date(0)" -> "\"1970-01-01T00:00:00.000Z\""
      [] value = "BigInt(1)" -> "TypeError"
      [] OTHER -> "undefined"

\* Buffer.isBuffer and the bytes of a buffer
IsBuffer(value) == value = "Buffer(pong)"
BufferBytes(value) == "pong"

\* what a handler may return
HandlerValues ==
    {"Object{r:1}", "Number(3)", "pong", "undefined", "Date(0)", "Buffer(pong)", "BigInt(1)"}

\* the messages the bus delivers: null (the consumer was cancelled), or a message with a
\* content and, for a request, a replyTo and a correlationId
NullDelivery == [isNull |-> TRUE]
DirectReplyTo == "amq.rabbitmq.reply-to"
DeliveredMessages ==
    {NullDelivery} \cup
    [isNull : {FALSE}, content : ReplyContents,
     replyTo : {Omitted, Given(DirectReplyTo)}, correlationId : CallIds]

NoDelivery == [pc |-> "idle"]

\* channel.ack(msg) and channel.nack(msg, allUpTo, requeue)
Ack == [op |-> "ack"]
Nack(allUpTo, requeue) == [op |-> "nack", allUpTo |-> allUpTo, requeue |-> requeue]

\* where a consumer callback stands once it is entered with a message
\* (rabbitmq-core.module.ts lines 405-421, rabbitmq.service.ts lines 342-350): a null
\* message returns at once, any other is parsed and handed to the handler, which is
\* then awaited
Delivered(via, msg) ==
    IF msg.isNull
    THEN [pc |-> "done", via |-> via, msg |-> msg, calls |-> 0, payload |-> "none",
          handler |-> [state |-> "none"], replies |-> <<>>, acks |-> <<>>]
    ELSE [pc |-> "handler", via |-> via, msg |-> msg, calls |-> 1,
          payload |-> deserializeMessage(msg.content),
          handler |-> [state |-> "running"], replies |-> <<>>, acks |-> <<>>]

\* the bus delivers a message to the callback of registerDiscoveredRpcHandler
\* (lines 405-421)
RpcDelivered(msg) ==
    /\ delivery.pc \in {"idle", "done"}
    /\ deliveryCount < MaxDeliveries
    /\ deliveryCount' = deliveryCount + 1
    /\ delivery' = Delivered("rpc", msg)
    /\ UNCHANGED <<rpcVars, regVars, lastQuery, closed>>

\* faulty variant: the reply is sent without the correlationId of the request
RpcReplyNoCorrelation(msg, responseBuffer) ==
    [to |-> msg.replyTo.value, content |-> responseBuffer, persistent |-> FALSE,
     correlationId |-> ForeignCorrelationId]

\* the reply of lines 426-432
RpcReply(msg, responseBuffer) ==
    [to |-> msg.replyTo.value, content |-> responseBuffer, persistent |-> FALSE,
     correlationId |-> msg.correlationId]

\* the handler of an RPC request returns (lines 421-434): the response is encoded, a
\* request with a replyTo is replied to, and the request is acked; an encoding or a
\* sendToQueue that throws lands in the catch block, which nacks (lines 435-441)
RpcHandlerReturns(response, sendOk) ==
    /\ delivery.pc = "handler"
    /\ delivery.via = "rpc"
    /\ LET msg == delivery.msg
           coalesced == IF response = "undefined" THEN "null" ELSE response
           responseBuffer == IF IsBuffer(response) THEN BufferBytes(response)
                             ELSE JsonStringify(coalesced)
           returned == [state |-> "returned", value |-> response, sendOk |-> sendOk]
       IN IF responseBuffer = "TypeError"
          THEN /\ sendOk
               /\ delivery' = [delivery EXCEPT !.pc = "done", !.handler = returned,
                                               !.acks = Append(@, Nack(FALSE, FALSE))]
          ELSE IF msg.replyTo.defined
               THEN IF sendOk
                    THEN delivery' = [delivery EXCEPT
                                         !.pc = "done", !.handler = returned,
                                         !.replies = Append(@, RpcReply(msg, responseBuffer)),
                                         !.acks = Append(@, Ack)]
                    ELSE delivery' = [delivery EXCEPT
                                         !.pc = "done", !.handler = returned,
                                         !.acks = Append(@, Nack(FALSE, FALSE))]
               ELSE /\ sendOk
                    /\ delivery' = [delivery EXCEPT !.pc = "done", !.handler = returned,
                                                    !.acks = Append(@, Ack)]
    /\ UNCHANGED <<rpcVars, regVars, lastQuery, deliveryCount, closed>>

\* the handler of an RPC request throws or rejects (lines 435-441)
RpcHandlerThrows ==
    /\ delivery.pc = "handler"
    /\ delivery.via = "rpc"
    /\ delivery' = [delivery EXCEPT !.pc = "done", !.handler = [state |-> "threw"],
                                    !.acks = Append(@, Nack(FALSE, FALSE))]
    /\ UNCHANGED <<rpcVars, regVars, lastQuery, deliveryCount, closed>>

\* the bus delivers a message to the callback of RabbitMQService.consume
\* (rabbitmq.service.ts lines 342-350)
ConsumeDelivered(message) ==
    /\ delivery.pc \in {"idle", "done"}
    /\ deliveryCount < MaxDeliveries
    /\ deliveryCount' = deliveryCount + 1
    /\ delivery' = Delivered("consume", message)
    /\ UNCHANGED <<rpcVars, regVars, lastQuery, closed>>

\* faulty variant: a failed handler puts the message back on the queue
ConsumeCatchRequeues == Nack(FALSE, TRUE)

\* the catch block of the consume callback (lines 352-354)
ConsumeCatch == Nack(FALSE, FALSE)

\* onMessage completes (lines 350-351)
ConsumeHandlerCompletes ==
    /\ delivery.pc = "handler"
    /\ delivery.via = "consume"
    /\ delivery' = [delivery EXCEPT !.pc = "done", !.handler = [state |-> "completed"],
                                    !.acks = Append(@, Ack)]
    /\ UNCHANGED <<rpcVars, regVars, lastQuery, deliveryCount, closed>>

\* onMessage throws or rejects (lines 352-355)
ConsumeHandlerThrows ==
    /\ delivery.pc = "handler"
    /\ delivery.via = "consume"
    /\ delivery' = [delivery EXCEPT !.pc = "done", !.handler = [state |-> "threw"],
                                    !.acks = Append(@, ConsumeCatch)]
    /\ UNCHANGED <<rpcVars, regVars, lastQuery, deliveryCount, closed>>

\* the consumer callbacks, one delivery after the other
NextHandler ==
    \/ \E msg \in DeliveredMessages : RpcDelivered(msg)
    \/ \E response \in HandlerValues, sendOk \in BOOLEAN : RpcHandlerReturns(response, sendOk)
    \/ RpcHandlerThrows
    \/ \E message \in DeliveredMessages : ConsumeDelivered(message)
    \/ ConsumeHandlerCompletes
    \/ ConsumeHandlerThrows

----------------------------------------------------------------------------
(***************************************************************************)
(* Liveness registry: ServiceDiscoveryService.                             *)
(***************************************************************************)

\* this.serviceId (randomUUID() in the constructor) and the ids of the peers
Self == "self"
Peers == {"p1"}

\* options.heartbeatInterval || 30000: the unit of the model's clock
DefaultHeartbeatInterval == 1
\* options.serviceTimeout: the default 90000 (three intervals) and a short one
ServiceTimeouts == {1, 3}

\* ServiceDiscoveryEventType
SERVICE_DEREGISTERED == "service.deregistered"
SERVICE_HEALTHY == "service.healthy"
SERVICE_HEARTBEAT == "service.heartbeat"
SERVICE_REGISTERED == "service.registered"
SERVICE_UNHEALTHY == "service.unhealthy"
ServiceDiscoveryEventType ==
    {SERVICE_DEREGISTERED, SERVICE_HEALTHY, SERVICE_HEARTBEAT, SERVICE_REGISTERED,
     SERVICE_UNHEALTHY}

\* a Date object, and what JSON.stringify/JSON.parse leave of it: an ISO string
Date(ms) == [type |-> "Date", ms |-> ms]
IsoString(ms) == [type |-> "string", ms |-> ms]

\* options.serviceName of each instance
ServiceNameOf(id) == IF id = "p2" THEN "billing" ELSE "orders"

NoInfo == [serviceId |-> "none"]

\* getCurrentServiceInfo (lines 129-143), with options.version, options.tags and
\* options.metadata left to their defaults
getCurrentServiceInfo ==
    [serviceId |-> Self, serviceName |-> ServiceNameOf(Self), status |-> "healthy",
     lastHeartbeat |-> Date(now), version |-> "1.0.0", tags |-> Given(<<>>),
     metadata |-> Given({})]

\* Map: has / get / set / delete on the insertion-ordered services map
MapHas(m, k) == \E i \in 1..Len(m) : m[i].serviceId = k
MapIndex(m, k) == CHOOSE i \in 1..Len(m) : m[i].serviceId = k
MapGet(m, k) == m[MapIndex(m, k)]
MapSet(m, k, v) == IF MapHas(m, k) THEN [m EXCEPT ![MapIndex(m, k)] = v] ELSE Append(m, v)
MapDelete(m, k) == SelectSeq(m, LAMBDA s : s.serviceId # k)

\* faulty variant: the handler applies every event, its own broadcasts included
handleServiceEventNoSelfCheck(m, type, service) ==
    IF type = SERVICE_DEREGISTERED THEN MapDelete(m, service.serviceId)
    ELSE IF type = SERVICE_HEARTBEAT
    THEN IF MapHas(m, service.serviceId)
         THEN [m EXCEPT ![MapIndex(m, service.serviceId)] =
                  [@ EXCEPT !.lastHeartbeat = service.lastHeartbeat,
                            !.status = service.status]]
         ELSE MapSet(m, service.serviceId, service)
    ELSE IF type = SERVICE_REGISTERED THEN MapSet(m, service.serviceId, service)
    ELSE m

\* faulty variant: a heartbeat event refreshes lastHeartbeat and keeps the stored status
handleServiceEventKeepsStatus(m, type, service) ==
    IF service.serviceId = Self THEN m
    ELSE IF type = SERVICE_DEREGISTERED THEN MapDelete(m, service.serviceId)
    ELSE IF type = SERVICE_HEARTBEAT
    THEN IF MapHas(m, service.serviceId)
         THEN [m EXCEPT ![MapIndex(m, service.serviceId)] =
                  [@ EXCEPT !.lastHeartbeat = service.lastHeartbeat]]
         ELSE MapSet(m, service.serviceId, service)
    ELSE IF type = SERVICE_REGISTERED THEN MapSet(m, service.serviceId, service)
    ELSE m

\* faulty variant: a deregistered event removes only a record that is still healthy
handleServiceEventKeepsUnhealthy(m, type, service) ==
    IF service.serviceId = Self THEN m
    ELSE IF type = SERVICE_DEREGISTERED
    THEN IF MapHas(m, service.serviceId) /\ MapGet(m, service.serviceId).status = "healthy"
         THEN MapDelete(m, service.serviceId)
         ELSE m
    ELSE IF type = SERVICE_HEARTBEAT
    THEN IF MapHas(m, service.serviceId)
         THEN [m EXCEPT ![MapIndex(m, service.serviceId)] =
                  [@ EXCEPT !.lastHeartbeat = service.lastHeartbeat,
                            !.status = service.status]]
         ELSE MapSet(m, service.serviceId, service)
    ELSE IF type = SERVICE_REGISTERED THEN MapSet(m, service.serviceId, service)
    ELSE m

\* faulty variant: a registered event always adds a record
handleServiceEventAppends(m, type, service) ==
    IF service.serviceId = Self THEN m
    ELSE IF type = SERVICE_DEREGISTERED THEN MapDelete(m, service.serviceId)
    ELSE IF type = SERVICE_HEARTBEAT
    THEN IF MapHas(m, service.serviceId)
         THEN [m EXCEPT ![MapIndex(m, service.serviceId)] =
                  [@ EXCEPT !.lastHeartbeat = service.lastHeartbeat,
                            !.status = service.status]]
         ELSE MapSet(m, service.serviceId, service)
    ELSE IF type = SERVICE_REGISTERED THEN Append(m, service)
    ELSE m

\* faulty variant: a heartbeat for an id that is not in the map is dropped
handleServiceEventDropsUnknown(m, type, service) ==
    IF service.serviceId = Self THEN m
    ELSE IF type = SERVICE_DEREGISTERED THEN MapDelete(m, service.serviceId)
    ELSE IF type = SERVICE_HEARTBEAT
    THEN IF MapHas(m, service.serviceId)
         THEN [m EXCEPT ![MapIndex(m, service.serviceId)] =
                  [@ EXCEPT !.lastHeartbeat = service.lastHeartbeat,
                            !.status = service.status]]
         ELSE m
    ELSE IF type = SERVICE_REGISTERED THEN MapSet(m, service.serviceId, service)
    ELSE m

\* handleServiceEvent (lines 435-468): the services map after the event
handleServiceEvent(m, type, service) ==
    IF service.serviceId = Self THEN m
    ELSE IF type = SERVICE_DEREGISTERED THEN MapDelete(m, service.serviceId)
    ELSE IF type = SERVICE_HEARTBEAT
    THEN IF MapHas(m, service.serviceId)
         THEN [m EXCEPT ![MapIndex(m, service.serviceId)] =
                  [@ EXCEPT !.lastHeartbeat = service.lastHeartbeat,
                            !.status = service.status]]
         ELSE MapSet(m, service.serviceId, service)
    ELSE IF type = SERVICE_REGISTERED THEN MapSet(m, service.serviceId, service)
    ELSE m

\* cleanupDeadServices (lines 383-398): the loop over the entries still to visit;
\* lastHeartbeat.getTime() throws on a value that is not a Date
RECURSIVE cleanupLoop(_, _, _, _)
cleanupLoop(todo, kept, timeout, nowMs) ==
    IF todo = <<>> THEN [services |-> kept, threw |-> FALSE]
    ELSE LET service == Head(todo)
             timeSinceLastHeartbeat == nowMs - service.lastHeartbeat.ms
         IN IF service.lastHeartbeat.type # "Date"
            THEN [services |-> kept \o todo, threw |-> TRUE]
            ELSE IF timeSinceLastHeartbeat > timeout
            THEN cleanupLoop(Tail(todo), kept, timeout, nowMs)
            ELSE IF 2 * timeSinceLastHeartbeat > timeout /\ service.status = "healthy"
            THEN cleanupLoop(Tail(todo), Append(kept, [service EXCEPT !.status = "unhealthy"]),
                             timeout, nowMs)
            ELSE cleanupLoop(Tail(todo), Append(kept, service), timeout, nowMs)

cleanupDeadServices(m, timeout, nowMs) == cleanupLoop(m, <<>>, timeout, nowMs)

\* a routing key or a binding pattern as its dot-separated words
Undefined == <<>>
\* the options of a deployment that sets no routing key, and of one that sets one-word keys
DefaultOptions ==
    [registrationRoutingKey |-> Undefined, heartbeatRoutingKey |-> Undefined,
     deregistrationRoutingKey |-> Undefined]
OneWordOptions ==
    [registrationRoutingKey |-> <<"register">>, heartbeatRoutingKey |-> <<"heartbeat">>,
     deregistrationRoutingKey |-> <<"deregister">>]
RoutingKeyOptions == {DefaultOptions, OneWordOptions}

\* getRoutingKey (lines 209-223)
getRoutingKey(type) ==
    IF type = SERVICE_DEREGISTERED
    THEN IF routingKeyOptions.deregistrationRoutingKey # Undefined
         THEN routingKeyOptions.deregistrationRoutingKey ELSE <<"service", "deregister">>
    ELSE IF type = SERVICE_HEARTBEAT
    THEN IF routingKeyOptions.heartbeatRoutingKey # Undefined
         THEN routingKeyOptions.heartbeatRoutingKey ELSE <<"service", "heartbeat">>
    ELSE IF type = SERVICE_REGISTERED
    THEN IF routingKeyOptions.registrationRoutingKey # Undefined
         THEN routingKeyOptions.registrationRoutingKey ELSE <<"service", "register">>
    ELSE <<"service", "unknown">>

\* the pattern setupDiscovery binds the queue with (line 334)
BindingPattern == <<"*">>

\* the topic exchange asserted by setupDiscovery (lines 325-327) routes a message to a
\* queue whose binding pattern matches the routing key: a star stands for exactly one
\* word, a hash for any number of words
RECURSIVE TopicMatches(_, _)
TopicMatches(pattern, key) ==
    IF pattern = <<>> THEN key = <<>>
    ELSE IF Head(pattern) = "#"
    THEN \/ TopicMatches(Tail(pattern), key)
         \/ key # <<>> /\ TopicMatches(pattern, Tail(key))
    ELSE /\ key # <<>>
         /\ Head(pattern) \in {"*", Head(key)}
         /\ TopicMatches(Tail(pattern), Tail(key))

NoBroadcast == [type |-> "none", serviceId |-> "none", routed |-> FALSE]

\* no peer has published anything; the deployment sets no routing key
BusIdle ==
    /\ routingKeyOptions = DefaultOptions
    /\ lastBroadcast = NoBroadcast

\* getAllServices (lines 119-121)
getAllServices == services

\* getServices called without an argument
NoFilter == [defined |-> FALSE]

\* Array.prototype.includes on a list of strings
Includes(list, x) == \E i \in 1..Len(list) : list[i] = x

\* object[key] on a metadata object, held as a set of <<key, value>> entries
MetadataGet(object, key) ==
    IF \E e \in object : e[1] = key
    THEN (CHOOSE e \in object : e[1] = key)[2]
    ELSE "undefined"

\* the truthiness test the filters and the count apply to an optional string
TruthyString(x) == x.defined /\ x.value # ""

\* getServices (lines 281-313): the filters are applied one after the other to the array
\* of getAllServices()
getServices(filter) ==
    IF filter = NoFilter THEN getAllServices
    ELSE LET byName == IF TruthyString(filter.serviceName)
                       THEN SelectSeq(getAllServices,
                                      LAMBDA s : s.serviceName = filter.serviceName.value)
                       ELSE getAllServices
             byVersion == IF TruthyString(filter.version)
                          THEN SelectSeq(byName, LAMBDA s : s.version = filter.version.value)
                          ELSE byName
             byStatus == IF TruthyString(filter.status)
                         THEN SelectSeq(byVersion, LAMBDA s : s.status = filter.status.value)
                         ELSE byVersion
             byTags == IF filter.tags.defined /\ Len(filter.tags.value) > 0
                       THEN SelectSeq(byStatus,
                               LAMBDA s : \E i \in 1..Len(filter.tags.value) :
                                  s.tags.defined /\ Includes(s.tags.value, filter.tags.value[i]))
                       ELSE byStatus
         IN IF filter.metadata.defined
            THEN SelectSeq(byTags,
                    LAMBDA s : /\ s.metadata.defined
                               /\ \A e \in filter.metadata.value :
                                     MetadataGet(s.metadata.value, e[1]) = e[2])
            ELSE byTags

\* a filter that names some of its fields
Filter(serviceName, version, status, tags, metadata) ==
    [serviceName |-> serviceName, version |-> version, status |-> status, tags |-> tags,
     metadata |-> metadata]

\* getHealthyServices (lines 170-175)
getHealthyServices(serviceName) ==
    getServices(Filter(serviceName, Omitted, Given("healthy"), Omitted, Omitted))

\* faulty variant: Math.floor(Math.random() * length) always gives the first index
RandomIndexesFirstOnly(length) == {0}

\* the values of Math.floor(Math.random() * length), Math.random() ranging over [0, 1)
RandomIndexes(length) == 0..(length - 1)

\* getRandomHealthyService (lines 192-200): what it may return
getRandomHealthyService(serviceName) ==
    LET healthy == getHealthyServices(Given(serviceName))
    IN IF Len(healthy) = 0 THEN {Omitted}
       ELSE {Given(healthy[i + 1]) : i \in RandomIndexes(Len(healthy))}

\* getServiceCount (lines 255-261)
getServiceCount(serviceName) ==
    IF TruthyString(serviceName)
    THEN Len(getServices(Filter(serviceName, Omitted, Omitted, Omitted, Omitted)))
    ELSE Len(services)

\* hasService (lines 374-376)
hasService(serviceName) ==
    Len(getServices(Filter(Given(serviceName), Omitted, Omitted, Omitted, Omitted))) > 0

\* getServiceById (lines 239-241)
getServiceById(serviceId) ==
    IF MapHas(services, serviceId) THEN Given(MapGet(services, serviceId)) ELSE Omitted

\* no query method has been called
NoQuery == [op |-> "none"]

\* nothing outside the RPC engine and the registry's lifecycle has happened
ExtIdle ==
    /\ lastQuery = NoQuery
    /\ delivery = NoDelivery
    /\ deliveryCount = 0
    /\ closed = FALSE

InitReg ==
    /\ enabled \in BOOLEAN
    /\ serviceTimeout \in ServiceTimeouts
    /\ now = 0
    /\ initPc = "idle"
    /\ initResult = "none"
    /\ destroyPc = "idle"
    /\ consuming = FALSE
    /\ services = <<>>
    /\ isRegistered = FALSE
    /\ heartbeatInterval = "unset"
    /\ cleanupInterval = "unset"
    /\ heartbeatDue = 0
    /\ cleanupDue = 0
    /\ pendingInfo = NoInfo
    /\ busOps = {}
    /\ published = {}
    /\ lastEvent = [type |-> "none", serviceId |-> "none", prev |-> NoInfo]
    /\ sweepThrew = FALSE
    /\ destroyResult = "none"
    /\ heartbeatLog = [failed |-> FALSE, last |-> "none"]

\* the registry untouched: the state the RPC engine is studied in
RegIdle ==
    /\ enabled = FALSE
    /\ serviceTimeout = 3
    /\ now = 0
    /\ initPc = "idle"
    /\ initResult = "none"
    /\ destroyPc = "idle"
    /\ consuming = FALSE
    /\ services = <<>>
    /\ isRegistered = FALSE
    /\ heartbeatInterval = "unset"
    /\ cleanupInterval = "unset"
    /\ heartbeatDue = 0
    /\ cleanupDue = 0
    /\ pendingInfo = NoInfo
    /\ busOps = {}
    /\ published = {}
    /\ lastEvent = [type |-> "none", serviceId |-> "none", prev |-> NoInfo]
    /\ sweepThrew = FALSE
    /\ destroyResult = "none"
    /\ heartbeatLog = [failed |-> FALSE, last |-> "none"]

\* time passes; an armed interval timer fires when its expiry is reached
Tick ==
    /\ now < MaxTime
    /\ heartbeatInterval = "armed" => now < heartbeatDue
    /\ cleanupInterval = "armed" => now < cleanupDue
    /\ now' = now + 1
    /\ UNCHANGED <<enabled, serviceTimeout, initPc, initResult, destroyPc, consuming,
                   services, isRegistered, heartbeatInterval, cleanupInterval, heartbeatDue,
                   cleanupDue, pendingInfo, busOps, published, lastEvent, sweepThrew>>
    /\ UNCHANGED <<destroyResult, heartbeatLog>>
    /\ UNCHANGED busVars
    /\ UNCHANGED rpcVars
    /\ UNCHANGED extVars

\* faulty variant: onModuleInit sets the discovery up whether or not it is enabled
OnModuleInitIgnoresEnabled ==
    /\ initPc = "idle"
    /\ destroyPc = "idle"
    /\ initPc' = "assertExchange"
    /\ busOps' = busOps \cup {"assertExchange"}
    /\ UNCHANGED <<enabled, serviceTimeout, now, initResult, destroyPc, consuming, services,
                   isRegistered, heartbeatInterval, cleanupInterval, heartbeatDue, cleanupDue,
                   pendingInfo, published, lastEvent, sweepThrew>>
    /\ UNCHANGED <<destroyResult, heartbeatLog>>
    /\ UNCHANGED busVars
    /\ UNCHANGED rpcVars
    /\ UNCHANGED extVars

\* onModuleInit is called (lines 93-99): returns at once when disabled, else calls
\* setupDiscovery, which awaits assertExchange
OnModuleInit ==
    /\ initPc = "idle"
    /\ destroyPc = "idle"
    /\ IF ~enabled
       THEN /\ initPc' = "done"
            /\ initResult' = "disabled"
            /\ UNCHANGED busOps
       ELSE /\ initPc' = "assertExchange"
            /\ busOps' = busOps \cup {"assertExchange"}
            /\ UNCHANGED initResult
    /\ UNCHANGED <<enabled, serviceTimeout, now, destroyPc, consuming, services, isRegistered,
                   heartbeatInterval, cleanupInterval, heartbeatDue, cleanupDue, pendingInfo,
                   published, lastEvent, sweepThrew>>
    /\ UNCHANGED <<destroyResult, heartbeatLog>>
    /\ UNCHANGED busVars
    /\ UNCHANGED rpcVars
    /\ UNCHANGED extVars

\* setupDiscovery: assertExchange resolved, assertQueue is awaited (lines 325-333)
AssertExchangeOk ==
    /\ initPc = "assertExchange"
    /\ initPc' = "assertQueue"
    /\ busOps' = busOps \cup {"assertQueue"}
    /\ UNCHANGED <<enabled, serviceTimeout, now, initResult, destroyPc, consuming, services,
                   isRegistered, heartbeatInterval, cleanupInterval, heartbeatDue, cleanupDue,
                   pendingInfo, published, lastEvent, sweepThrew>>
    /\ UNCHANGED <<destroyResult, heartbeatLog>>
    /\ UNCHANGED busVars
    /\ UNCHANGED rpcVars
    /\ UNCHANGED extVars

\* setupDiscovery: assertQueue resolved, bindQueue is awaited (lines 333-334)
AssertQueueOk ==
    /\ initPc = "assertQueue"
    /\ initPc' = "bindQueue"
    /\ busOps' = busOps \cup {"bindQueue"}
    /\ UNCHANGED <<enabled, serviceTimeout, now, initResult, destroyPc, consuming, services,
                   isRegistered, heartbeatInterval, cleanupInterval, heartbeatDue, cleanupDue,
                   pendingInfo, published, lastEvent, sweepThrew>>
    /\ UNCHANGED <<destroyResult, heartbeatLog>>
    /\ UNCHANGED busVars
    /\ UNCHANGED rpcVars
    /\ UNCHANGED extVars

\* setupDiscovery: bindQueue resolved, consume is awaited (lines 334-335)
BindQueueOk ==
    /\ initPc = "bindQueue"
    /\ initPc' = "consume"
    /\ busOps' = busOps \cup {"consume"}
    /\ UNCHANGED <<enabled, serviceTimeout, now, initResult, destroyPc, consuming, services,
                   isRegistered, heartbeatInterval, cleanupInterval, heartbeatDue, cleanupDue,
                   pendingInfo, published, lastEvent, sweepThrew>>
    /\ UNCHANGED <<destroyResult, heartbeatLog>>
    /\ UNCHANGED busVars
    /\ UNCHANGED rpcVars
    /\ UNCHANGED extVars

\* setupDiscovery returned; registerService builds the record and awaits the publish of
\* the registered event (lines 335-337, 100, 485-487)
ConsumeSetupOk ==
    /\ initPc = "consume"
    /\ initPc' = "publish"
    /\ consuming' = TRUE
    /\ pendingInfo' = getCurrentServiceInfo
    /\ busOps' = busOps \cup {"publish"}
    /\ published' = published \cup {SERVICE_REGISTERED}
    /\ UNCHANGED <<enabled, serviceTimeout, now, initResult, destroyPc, services,
                   isRegistered, heartbeatInterval, cleanupInterval, heartbeatDue, cleanupDue,
                   lastEvent, sweepThrew>>
    /\ UNCHANGED <<destroyResult, heartbeatLog>>
    /\ UNCHANGED busVars
    /\ UNCHANGED rpcVars
    /\ UNCHANGED extVars

\* faulty variant: registerService flags the registration without storing the record
RegisterPublishOkNoRecord ==
    /\ initPc = "publish"
    /\ initPc' = "done"
    /\ initResult' = "ok"
    /\ isRegistered' = TRUE
    /\ pendingInfo' = NoInfo
    /\ heartbeatInterval' = "armed"
    /\ heartbeatDue' = now + DefaultHeartbeatInterval
    /\ cleanupInterval' = "armed"
    /\ cleanupDue' = now + 2 * DefaultHeartbeatInterval
    /\ UNCHANGED <<enabled, serviceTimeout, now, destroyPc, consuming, services, busOps,
                   published, lastEvent, sweepThrew>>
    /\ UNCHANGED <<destroyResult, heartbeatLog>>
    /\ UNCHANGED busVars
    /\ UNCHANGED rpcVars
    /\ UNCHANGED extVars

\* the publish resolved: registerService stores the record, onModuleInit starts both
\* timers and returns (lines 489-490, 101-102, 534-544, 519-527)
RegisterPublishOk ==
    /\ initPc = "publish"
    /\ initPc' = "done"
    /\ initResult' = "ok"
    /\ services' = MapSet(services, Self, pendingInfo)
    /\ isRegistered' = TRUE
    /\ pendingInfo' = NoInfo
    /\ heartbeatInterval' = "armed"
    /\ heartbeatDue' = now + DefaultHeartbeatInterval
    /\ cleanupInterval' = "armed"
    /\ cleanupDue' = now + 2 * DefaultHeartbeatInterval
    /\ UNCHANGED <<enabled, serviceTimeout, now, destroyPc, consuming, busOps, published,
                   lastEvent, sweepThrew>>
    /\ UNCHANGED <<destroyResult, heartbeatLog>>
    /\ UNCHANGED busVars
    /\ UNCHANGED rpcVars
    /\ UNCHANGED extVars

\* faulty variant: the catch block of onModuleInit rethrows the error
InitStepFailRethrows ==
    /\ initPc \in {"assertExchange", "assertQueue", "bindQueue", "consume", "publish"}
    /\ initPc' = "done"
    /\ initResult' = "rethrown"
    /\ pendingInfo' = NoInfo
    /\ UNCHANGED <<enabled, serviceTimeout, now, destroyPc, consuming, services,
                   isRegistered, heartbeatInterval, cleanupInterval, heartbeatDue, cleanupDue,
                   busOps, published, lastEvent, sweepThrew>>
    /\ UNCHANGED <<destroyResult, heartbeatLog>>
    /\ UNCHANGED busVars
    /\ UNCHANGED rpcVars
    /\ UNCHANGED extVars

\* faulty variant: registerService raises isRegistered before its publish is awaited, so
\* a rejected registration publish leaves the flag set
InitStepFailLeavesRegistered ==
    /\ initPc \in {"assertExchange", "assertQueue", "bindQueue", "consume", "publish"}
    /\ initPc' = "done"
    /\ initResult' = "failed"
    /\ pendingInfo' = NoInfo
    /\ isRegistered' = (initPc = "publish")
    /\ UNCHANGED <<enabled, serviceTimeout, now, destroyPc, consuming, services,
                   heartbeatInterval, cleanupInterval, heartbeatDue, cleanupDue,
                   busOps, published, lastEvent, sweepThrew>>
    /\ UNCHANGED <<destroyResult, heartbeatLog>>
    /\ UNCHANGED busVars
    /\ UNCHANGED rpcVars
    /\ UNCHANGED extVars

\* an awaited bus call of onModuleInit rejects: the catch logs it and onModuleInit
\* returns (lines 103-105)
InitStepFail ==
    /\ initPc \in {"assertExchange", "assertQueue", "bindQueue", "consume", "publish"}
    /\ initPc' = "done"
    /\ initResult' = "failed"
    /\ pendingInfo' = NoInfo
    /\ UNCHANGED <<enabled, serviceTimeout, now, destroyPc, consuming, services,
                   isRegistered, heartbeatInterval, cleanupInterval, heartbeatDue, cleanupDue,
                   busOps, published, lastEvent, sweepThrew>>
    /\ UNCHANGED <<destroyResult, heartbeatLog>>
    /\ UNCHANGED busVars
    /\ UNCHANGED rpcVars
    /\ UNCHANGED extVars

\* the statuses and timestamps a discovery event can carry when it is delivered
EventStatuses == {"healthy", "unhealthy"}
EventTimes == {t \in {now - 1, now} : t >= 0}

\* the handler reads status and lastHeartbeat of registered and heartbeat events of
\* peers only; in every other event they are fixed to one value
ReadsRecord(type, id) == id # Self /\ type \in {SERVICE_REGISTERED, SERVICE_HEARTBEAT}

\* a discovery event is delivered to the subscribed handler; its service record went
\* through JSON, so its dates are strings (lines 335, 435-468)
HandleEvent(type, id, status, ms) ==
    /\ consuming
    /\ ms \in EventTimes
    /\ ~ReadsRecord(type, id) => status = "healthy" /\ ms = now
    /\ LET service == [serviceId |-> id, serviceName |-> ServiceNameOf(id),
                       status |-> status, lastHeartbeat |-> IsoString(ms),
                       version |-> "1.0.0", tags |-> Given(<<>>), metadata |-> Given({})]
       IN services' = handleServiceEvent(services, type, service)
    /\ lastEvent' = [type |-> type, serviceId |-> id,
                      prev |-> IF MapHas(services, id) /\ id # Self
                               THEN MapGet(services, id) ELSE NoInfo]
    /\ UNCHANGED <<enabled, serviceTimeout, now, initPc, initResult, destroyPc, consuming,
                   isRegistered, heartbeatInterval, cleanupInterval, heartbeatDue, cleanupDue,
                   pendingInfo, busOps, published, sweepThrew>>
    /\ UNCHANGED <<destroyResult, heartbeatLog>>
    /\ UNCHANGED busVars
    /\ UNCHANGED rpcVars
    /\ UNCHANGED extVars

\* faulty variant: a rejected heartbeat publish clears the heartbeat timer
HeartbeatTickStopsOnFailure(ok) ==
    /\ heartbeatInterval = "armed"
    /\ now >= heartbeatDue
    /\ heartbeatDue' = heartbeatDue + DefaultHeartbeatInterval
    /\ heartbeatInterval' = IF ok \/ ~MapHas(services, Self) THEN "armed" ELSE "unset"
    /\ IF MapHas(services, Self)
       THEN /\ services' = [services EXCEPT ![MapIndex(services, Self)] =
                               [@ EXCEPT !.lastHeartbeat = Date(now), !.status = "healthy"]]
            /\ busOps' = busOps \cup {"publish"}
            /\ published' = published \cup {SERVICE_HEARTBEAT}
            /\ heartbeatLog' = [failed |-> heartbeatLog.failed \/ ~ok,
                                last |-> IF ok THEN "ok" ELSE "failed"]
       ELSE /\ ok
            /\ UNCHANGED <<services, busOps, published, heartbeatLog>>
    /\ UNCHANGED <<enabled, serviceTimeout, now, initPc, initResult, destroyPc, consuming,
                   isRegistered, cleanupInterval, cleanupDue, pendingInfo,
                   lastEvent, sweepThrew>>
    /\ UNCHANGED destroyResult
    /\ UNCHANGED busVars
    /\ UNCHANGED rpcVars
    /\ UNCHANGED extVars

\* the heartbeat timer fires: sendHeartbeat refreshes the own record and publishes it
\* (lines 537-541, 501-512); ok says whether the publish resolves; a rejected publish is
\* caught and logged by the timer callback, and the interval stays armed
HeartbeatTick(ok) ==
    /\ heartbeatInterval = "armed"
    /\ now >= heartbeatDue
    /\ heartbeatDue' = heartbeatDue + DefaultHeartbeatInterval
    /\ IF MapHas(services, Self)
       THEN /\ services' = [services EXCEPT ![MapIndex(services, Self)] =
                               [@ EXCEPT !.lastHeartbeat = Date(now), !.status = "healthy"]]
            /\ busOps' = busOps \cup {"publish"}
            /\ published' = published \cup {SERVICE_HEARTBEAT}
            /\ heartbeatLog' = [failed |-> heartbeatLog.failed \/ ~ok,
                                last |-> IF ok THEN "ok" ELSE "failed"]
       ELSE /\ ok
            /\ UNCHANGED <<services, busOps, published, heartbeatLog>>
    /\ UNCHANGED <<enabled, serviceTimeout, now, initPc, initResult, destroyPc, consuming,
                   isRegistered, heartbeatInterval, cleanupInterval, cleanupDue, pendingInfo,
                   lastEvent, sweepThrew>>
    /\ UNCHANGED destroyResult
    /\ UNCHANGED busVars
    /\ UNCHANGED rpcVars
    /\ UNCHANGED extVars

\* the sweep timer fires: cleanupDeadServices (lines 522-524, 383-398)
CleanupTick ==
    /\ cleanupInterval = "armed"
    /\ now >= cleanupDue
    /\ cleanupDue' = cleanupDue + 2 * DefaultHeartbeatInterval
    /\ LET swept == cleanupDeadServices(services, serviceTimeout, now)
       IN /\ services' = swept.services
          /\ sweepThrew' = (sweepThrew \/ swept.threw)
    /\ UNCHANGED <<enabled, serviceTimeout, now, initPc, initResult, destroyPc, consuming,
                   isRegistered, heartbeatInterval, cleanupInterval, heartbeatDue, pendingInfo,
                   busOps, published, lastEvent>>
    /\ UNCHANGED <<destroyResult, heartbeatLog>>
    /\ UNCHANGED busVars
    /\ UNCHANGED rpcVars
    /\ UNCHANGED extVars

\* faulty variant: onModuleDestroy has no guard and deregisterService publishes the
\* deregistered event whether or not an own record exists
OnModuleDestroyAlwaysPublishes ==
    /\ initPc \in {"idle", "done"}
    /\ destroyPc = "idle"
    /\ destroyPc' = "publish"
    /\ destroyResult' = "pending"
    /\ busOps' = busOps \cup {"publish"}
    /\ published' = published \cup {SERVICE_DEREGISTERED}
    /\ UNCHANGED <<heartbeatInterval, cleanupInterval, heartbeatDue, cleanupDue>>
    /\ UNCHANGED <<enabled, serviceTimeout, now, initPc, initResult, consuming, services,
                   isRegistered, pendingInfo, lastEvent, sweepThrew>>
    /\ UNCHANGED heartbeatLog
    /\ UNCHANGED busVars
    /\ UNCHANGED rpcVars
    /\ UNCHANGED extVars

\* onModuleDestroy is called (lines 73-79, 415-421): returns at once when disabled or not
\* registered; else deregisterService awaits the publish of the deregistered event, or,
\* with no own record, returns and both timers are stopped
OnModuleDestroy ==
    /\ initPc \in {"idle", "done"}
    /\ destroyPc = "idle"
    /\ IF ~enabled \/ ~isRegistered
       THEN /\ destroyResult' = "skipped"
            /\ UNCHANGED <<destroyPc, busOps, published, heartbeatInterval, cleanupInterval,
                           heartbeatDue, cleanupDue>>
       ELSE IF MapHas(services, Self)
       THEN /\ destroyPc' = "publish"
            /\ destroyResult' = "pending"
            /\ busOps' = busOps \cup {"publish"}
            /\ published' = published \cup {SERVICE_DEREGISTERED}
            /\ UNCHANGED <<heartbeatInterval, cleanupInterval, heartbeatDue, cleanupDue>>
       ELSE /\ destroyResult' = "stopped"
            /\ heartbeatInterval' = "unset"
            /\ cleanupInterval' = "unset"
            /\ heartbeatDue' = 0
            /\ cleanupDue' = 0
            /\ UNCHANGED <<destroyPc, busOps, published>>
    /\ UNCHANGED <<enabled, serviceTimeout, now, initPc, initResult, consuming, services,
                   isRegistered, pendingInfo, lastEvent, sweepThrew>>
    /\ UNCHANGED heartbeatLog
    /\ UNCHANGED busVars
    /\ UNCHANGED rpcVars
    /\ UNCHANGED extVars

\* the deregistration publish resolved: the own record is deleted and both timers are
\* stopped (lines 423-424, 80-81, 551-568)
DeregisterPublishOk ==
    /\ destroyPc = "publish"
    /\ destroyPc' = "idle"
    /\ destroyResult' = "stopped"
    /\ services' = MapDelete(services, Self)
    /\ isRegistered' = FALSE
    /\ heartbeatInterval' = "unset"
    /\ cleanupInterval' = "unset"
    /\ heartbeatDue' = 0
    /\ cleanupDue' = 0
    /\ UNCHANGED <<enabled, serviceTimeout, now, initPc, initResult, consuming, pendingInfo,
                   busOps, published, lastEvent, sweepThrew>>
    /\ UNCHANGED heartbeatLog
    /\ UNCHANGED busVars
    /\ UNCHANGED rpcVars
    /\ UNCHANGED extVars

\* the deregistration publish rejected: the catch of onModuleDestroy logs it (lines 82-84)
DeregisterPublishFail ==
    /\ destroyPc = "publish"
    /\ destroyPc' = "idle"
    /\ destroyResult' = "caught"
    /\ UNCHANGED <<enabled, serviceTimeout, now, initPc, initResult, consuming, services,
                   isRegistered, heartbeatInterval, cleanupInterval, heartbeatDue, cleanupDue,
                   pendingInfo, busOps, published, lastEvent, sweepThrew>>
    /\ UNCHANGED heartbeatLog
    /\ UNCHANGED busVars
    /\ UNCHANGED rpcVars
    /\ UNCHANGED extVars

\* the event types a registry publishes (lines 421, 487, 511)
PublishedTypes == {SERVICE_REGISTERED, SERVICE_HEARTBEAT, SERVICE_DEREGISTERED}

\* a peer running the same registry with the same options publishes an event about
\* itself (registerService, sendHeartbeat, deregisterService: a healthy record stamped
\* now, under getRoutingKey(type)); the exchange routes it to this instance's queue when
\* the binding matches, and the consumer hands the parsed event to handleServiceEvent
PeerBroadcast(type, q) ==
    /\ consuming
    /\ LET routed == TopicMatches(BindingPattern, getRoutingKey(type))
           service == [serviceId |-> q, serviceName |-> ServiceNameOf(q),
                       status |-> "healthy", lastHeartbeat |-> IsoString(now),
                       version |-> "1.0.0", tags |-> Given(<<>>), metadata |-> Given({})]
       IN /\ lastBroadcast' = [type |-> type, serviceId |-> q, routed |-> routed]
          /\ IF routed
             THEN /\ services' = handleServiceEvent(services, type, service)
                  /\ lastEvent' = [type |-> type, serviceId |-> q,
                                   prev |-> IF MapHas(services, q)
                                            THEN MapGet(services, q) ELSE NoInfo]
             ELSE UNCHANGED <<services, lastEvent>>
    /\ UNCHANGED <<enabled, serviceTimeout, now, initPc, initResult, destroyPc, consuming,
                   isRegistered, heartbeatInterval, cleanupInterval, heartbeatDue, cleanupDue,
                   pendingInfo, busOps, published, sweepThrew>>
    /\ UNCHANGED <<destroyResult, heartbeatLog, routingKeyOptions>>
    /\ UNCHANGED rpcVars
    /\ UNCHANGED extVars

\* the promise onModuleInit() returned (lines 93-106): pending until the function
\* returns, rejected only if an error leaves it, fulfilled in every other outcome
onModuleInitSettled ==
    IF initPc # "done" THEN "pending"
    ELSE IF initResult = "rethrown" THEN "rejected"
    ELSE "fulfilled"

\* the awaits of setupDiscovery (lines 325-335)
SetupSteps == {"assertExchange", "assertQueue", "bindQueue", "consume"}

NextReg ==
    \/ Tick
    \/ OnModuleInit
    \/ AssertExchangeOk
    \/ AssertQueueOk
    \/ BindQueueOk
    \/ ConsumeSetupOk
    \/ RegisterPublishOk
    \/ InitStepFail
    \/ \E type \in ServiceDiscoveryEventType, id \in Peers \cup {Self},
          status \in EventStatuses, ms \in 0..MaxTime : HandleEvent(type, id, status, ms)
    \/ HeartbeatTick(TRUE)
    \/ CleanupTick
    \/ OnModuleDestroy
    \/ DeregisterPublishOk
    \/ DeregisterPublishFail

\* the lifecycle steps of the registry: start, stop, the two timers, with every broker
\* operation resolving or rejecting
NextLife ==
    \/ Tick
    \/ OnModuleInit
    \/ AssertExchangeOk
    \/ AssertQueueOk
    \/ BindQueueOk
    \/ ConsumeSetupOk
    \/ RegisterPublishOk
    \/ InitStepFail
    \/ \E ok \in BOOLEAN : HeartbeatTick(ok)
    \/ CleanupTick
    \/ OnModuleDestroy
    \/ DeregisterPublishOk
    \/ DeregisterPublishFail

\* the service names, and the records a peer can have put into the table: any name,
\* version and status, tags and metadata present or not
QueryNames == {"orders", "billing"}
PeerRecords ==
    [serviceId : Peers, serviceName : QueryNames, status : {"healthy", "unhealthy"},
     lastHeartbeat : {IsoString(0)}, version : {"1.0.0", "2.0.0"},
     tags : {Omitted, Given(<<"prod">>), Given(<<"prod", "eu">>)},
     metadata : {Omitted, Given({<<"region", "eu">>}),
                 Given({<<"region", "us">>, <<"tier", "gold">>}),
                 Given({<<"region", "eu">>, <<"tier", "gold">>})}]

\* the tables the queries are asked on: empty, the own record, a peer's record, or both
\* in either insertion order
QueryTables ==
    {<<>>, <<getCurrentServiceInfo>>}
       \cup {<<r>> : r \in PeerRecords}
       \cup {<<getCurrentServiceInfo, r>> : r \in PeerRecords}
       \cup {<<r, getCurrentServiceInfo>> : r \in PeerRecords}

\* the arguments the queries are called with
QueryFilters ==
    {NoFilter} \cup
    [serviceName : {Omitted} \cup {Given(n) : n \in QueryNames},
     version : {Omitted, Given("1.0.0")},
     status : {Omitted, Given("healthy")},
     tags : {Omitted, Given(<<>>), Given(<<"eu">>), Given(<<"eu", "dev">>)},
     metadata : {Omitted, Given({}), Given({<<"region", "eu">>}),
                 Given({<<"region", "eu">>, <<"tier", "gold">>})}]
QueryIds == Peers \cup {Self, "p9"}
\* the names the queries are asked about: names in use, a name no record has, and the
\* empty string
QueryNameArgs == QueryNames \cup {"shipping", ""}

\* a started registry whose table is one of QueryTables
InitQueryReg ==
    /\ enabled = TRUE
    /\ serviceTimeout = 3
    /\ now = 0
    /\ initPc = "done"
    /\ destroyPc = "idle"
    /\ consuming = TRUE
    /\ services \in QueryTables
    /\ isRegistered = MapHas(services, Self)
    /\ initResult = IF isRegistered THEN "ok" ELSE "failed"
    /\ heartbeatInterval = IF isRegistered THEN "armed" ELSE "unset"
    /\ cleanupInterval = IF isRegistered THEN "armed" ELSE "unset"
    /\ heartbeatDue = IF isRegistered THEN DefaultHeartbeatInterval ELSE 0
    /\ cleanupDue = IF isRegistered THEN 2 * DefaultHeartbeatInterval ELSE 0
    /\ pendingInfo = NoInfo
    /\ busOps = {"assertExchange", "assertQueue", "bindQueue", "consume", "publish"}
    /\ published = {SERVICE_REGISTERED}
    /\ lastEvent = [type |-> "none", serviceId |-> "none", prev |-> NoInfo]
    /\ sweepThrew = FALSE
    /\ destroyResult = "none"
    /\ heartbeatLog = [failed |-> FALSE, last |-> "none"]

\* a caller invokes getAllServices() (lines 119-121)
QueryAll ==
    /\ lastQuery = NoQuery
    /\ lastQuery' = [op |-> "getAllServices", arg |-> Omitted, result |-> getAllServices]
    /\ UNCHANGED <<rpcVars, regVars, hdlVars, closed>>

\* a caller invokes getServices(filter) (lines 281-313)
QueryServices(filter) ==
    /\ lastQuery = NoQuery
    /\ lastQuery' = [op |-> "getServices", arg |-> filter, result |-> getServices(filter)]
    /\ UNCHANGED <<rpcVars, regVars, hdlVars, closed>>

\* a caller invokes getHealthyServices(serviceName?) (lines 170-175)
QueryHealthy(serviceName) ==
    /\ lastQuery = NoQuery
    /\ lastQuery' = [op |-> "getHealthyServices", arg |-> serviceName,
                     result |-> getHealthyServices(serviceName)]
    /\ UNCHANGED <<rpcVars, regVars, hdlVars, closed>>

\* a caller invokes getRandomHealthyService(serviceName) (lines 192-200)
QueryRandom(serviceName) ==
    /\ lastQuery = NoQuery
    /\ \E picked \in getRandomHealthyService(serviceName) :
          lastQuery' = [op |-> "getRandomHealthyService", arg |-> serviceName,
                        result |-> picked]
    /\ UNCHANGED <<rpcVars, regVars, hdlVars, closed>>

\* a caller invokes getServiceCount(serviceName?) (lines 255-261)
QueryCount(serviceName) ==
    /\ lastQuery = NoQuery
    /\ lastQuery' = [op |-> "getServiceCount", arg |-> serviceName,
                     result |-> getServiceCount(serviceName)]
    /\ UNCHANGED <<rpcVars, regVars, hdlVars, closed>>

\* a caller invokes hasService(serviceName) (lines 374-376)
QueryHas(serviceName) ==
    /\ lastQuery = NoQuery
    /\ lastQuery' = [op |-> "hasService", arg |-> serviceName,
                     result |-> hasService(serviceName)]
    /\ UNCHANGED <<rpcVars, regVars, hdlVars, closed>>

\* a caller invokes getServiceById(serviceId) (lines 239-241)
QueryById(serviceId) ==
    /\ lastQuery = NoQuery
    /\ lastQuery' = [op |-> "getServiceById", arg |-> serviceId,
                     result |-> getServiceById(serviceId)]
    /\ UNCHANGED <<rpcVars, regVars, hdlVars, closed>>

\* the caller is done with the value the query returned
QueryReturns ==
    /\ lastQuery # NoQuery
    /\ lastQuery' = NoQuery
    /\ UNCHANGED <<rpcVars, regVars, hdlVars, closed>>

\* the query surface of the registry
NextQuery ==
    \/ QueryAll
    \/ \E filter \in QueryFilters : QueryServices(filter)
    \/ \E serviceName \in {Omitted} \cup {Given(n) : n \in QueryNameArgs} :
          QueryHealthy(serviceName)
    \/ \E serviceName \in QueryNameArgs : QueryRandom(serviceName)
    \/ \E serviceName \in {Omitted} \cup {Given(n) : n \in QueryNameArgs} :
          QueryCount(serviceName)
    \/ \E serviceName \in QueryNameArgs : QueryHas(serviceName)
    \/ \E serviceId \in QueryIds : QueryById(serviceId)
    \/ QueryReturns

\* the records a discovery event can carry: those of a peer, stamped later than the
\* records of the table, and the own record as it comes back from the bus
EventRecords ==
    {[r EXCEPT !.lastHeartbeat = IsoString(1)] : r \in PeerRecords}
       \cup {[getCurrentServiceInfo EXCEPT !.lastHeartbeat = IsoString(0)]}

\* the events the bus can deliver: any type with a service record
DiscoveryEvents == [type : ServiceDiscoveryEventType, service : EventRecords]

\* a discovery event is delivered to handleServiceEvent (lines 435-468)
EventDelivered(event) ==
    /\ consuming
    /\ lastEvent.type = "none"
    /\ services' = handleServiceEvent(services, event.type, event.service)
    /\ lastEvent' = [type |-> event.type, serviceId |-> event.service.serviceId,
                     prev |-> NoInfo, service |-> Given(event.service), before |-> services,
                     threw |-> FALSE]
    /\ UNCHANGED <<enabled, serviceTimeout, now, initPc, initResult, destroyPc, consuming,
                   isRegistered, heartbeatInterval, cleanupInterval, heartbeatDue, cleanupDue,
                   pendingInfo, busOps, published, sweepThrew>>
    /\ UNCHANGED <<destroyResult, heartbeatLog>>
    /\ UNCHANGED busVars
    /\ UNCHANGED rpcVars
    /\ UNCHANGED extVars

\* a malformed event, without a service field, is delivered to handleServiceEvent:
\* `service.serviceId` (line 439) reads a property of undefined and throws a TypeError
MalformedEventDelivered(type) ==
    /\ consuming
    /\ lastEvent.type = "none"
    /\ lastEvent' = [type |-> type, serviceId |-> "none", prev |-> NoInfo,
                     service |-> Omitted, before |-> services, threw |-> TRUE]
    /\ UNCHANGED <<enabled, serviceTimeout, now, initPc, initResult, destroyPc, consuming,
                   services, isRegistered, heartbeatInterval, cleanupInterval, heartbeatDue,
                   cleanupDue, pendingInfo, busOps, published, sweepThrew>>
    /\ UNCHANGED <<destroyResult, heartbeatLog>>
    /\ UNCHANGED busVars
    /\ UNCHANGED rpcVars
    /\ UNCHANGED extVars

\* the event handler on any table, with any event
NextEvents ==
    \/ \E event \in DiscoveryEvents : EventDelivered(event)
    \/ \E type \in ServiceDiscoveryEventType : MalformedEventDelivered(type)

\* the registry on the discovery exchange with a peer of its own kind
NextBus ==
    \/ Tick
    \/ OnModuleInit
    \/ AssertExchangeOk
    \/ AssertQueueOk
    \/ BindQueueOk
    \/ ConsumeSetupOk
    \/ RegisterPublishOk
    \/ InitStepFail
    \/ HeartbeatTick(TRUE)
    \/ CleanupTick
    \/ OnModuleDestroy
    \/ DeregisterPublishOk
    \/ DeregisterPublishFail
    \/ \E type \in PublishedTypes, q \in Peers : PeerBroadcast(type, q)

----------------------------------------------------------------------------
\* the RPC engine alone
InitRpcAlone == InitRpc /\ RegIdle /\ BusIdle /\ ExtIdle
SpecRpc == InitRpcAlone /\ [][NextRpc]_vars

\* the deadline timers of Node's event loop fire once armed
SpecRpcFair == SpecRpc /\ \A c \in CallIds : WF_vars(TimerFires(c))

\* the registry alone: its table under the events of its peers and its own timers; the
\* outcome of a heartbeat publish does not touch the table and is left to SpecLife
InitRegAlone == InitRpc /\ InitReg /\ BusIdle /\ ExtIdle
SpecReg == InitRegAlone /\ [][NextReg]_vars

\* the registry's lifecycle with a broker whose operations may fail, no peer around
InitLife == InitRpc /\ InitReg /\ BusIdle /\ ExtIdle
SpecLife == InitLife /\ [][NextLife]_vars

\* the registry and a peer of its own kind on one discovery exchange, under the default
\* routing keys and under one-word routing keys
InitBus ==
    /\ InitRpc
    /\ InitReg
    /\ routingKeyOptions \in RoutingKeyOptions
    /\ lastBroadcast = NoBroadcast
    /\ ExtIdle
SpecBus == InitBus /\ [][NextBus]_vars

\* the query methods called on a table of any content
InitRpcShutdown == InitRpc /\ RegIdle /\ BusIdle /\ ExtIdle
SpecRpcShutdown == InitRpcShutdown /\ [][NextRpcShutdown]_vars

InitHandler == InitRpc /\ RegIdle /\ BusIdle /\ ExtIdle
SpecHandler == InitHandler /\ [][NextHandler]_vars

InitEvents == InitRpc /\ InitQueryReg /\ BusIdle /\ ExtIdle
SpecEvents == InitEvents /\ [][NextEvents]_vars

InitQuery == InitRpc /\ InitQueryReg /\ BusIdle /\ ExtIdle
SpecQuery == InitQuery /\ [][NextQuery]_vars

----------------------------------------------------------------------------
(***************************************************************************)
(* RPC correlation engine: properties.                                     *)
(***************************************************************************)
TimedOut(c) == outcome[c] = [state |-> "rejected", value |-> "Error: RPC timeout"]
SendErrored(c) == outcome[c] = [state |-> "rejected", value |-> "Error: send failed"]
ReplyDelivered(c) == \E m \in delivered : m.correlationId = c
InSomeMap(c) == \E i \in DOMAIN mapObj : c \in mapObj[i]

\* C1: every request() call resumes its caller exactly once: the promise holds what the
\* first of reply arrival, timer expiry and send failure (or a failed subscription setup)
\* delivered, and stays pending only while none of them has occurred; later ones are no-ops.
C1_ExactlyOnce ==
    \A c \in CallIds :
        outcome[c] = IF firstEvent[c].state = "none" THEN PendingPromise ELSE firstEvent[c]

\* a call whose timer fired first, whose send then failed and whose reply came late
C1_Witness ==
    \E c \in CallIds : TimedOut(c) /\ send[c] = "failed" /\ ReplyDelivered(c)

\* C2: a call that resolved successfully holds the deserialized payload of a message that
\* was delivered on the reply destination with the call's own correlationId.
C2_ResolvedValueIsOwnReply ==
    \A c \in CallIds :
        outcome[c].state = "resolved" =>
            \E m \in delivered :
                /\ m.correlationId = c
                /\ outcome[c].value = deserializeMessage(m.content)

\* a call resolved with the parsed JSON body of its reply
C2_Witness ==
    \E c \in CallIds : outcome[c] = [state |-> "resolved", value |-> "Object{r:1}"]

\* C3: with calls A and B both pending, a reply carrying A's correlationId leaves B's
\* promise, B's entry in the callback map and B's timer as they were.
C3_NoCrossResolve ==
    [][\A a \in CallIds, content \in ReplyContents :
          (ReplyArrives(a, content) /\ a \in Callbacks) =>
              \A b \in Callbacks \ {a} :
                  /\ outcome'[b] = outcome[b]
                  /\ timer'[b] = timer[b]
                  /\ b \in Callbacks']_vars

\* the later call was answered first; the earlier one is still pending with its timer armed
C3_Witness ==
    /\ outcome[2].state = "resolved"
    /\ outcome[1].state = "pending"
    /\ 1 \in Callbacks
    /\ timer[1] = "armed"

\* C4: a call whose send succeeded and whose reply is never delivered ends rejected with
\* the timeout error, and a call rejected by its timer has no entry in the callback map.
C4_TimeoutNoLeak ==
    \A c \in CallIds :
        /\ (send[c] = "ok") ~> (TimedOut(c) \/ ReplyDelivered(c))
        /\ [](TimedOut(c) => ~InSomeMap(c))

\* a sent call timed out without any reply having been delivered for it
C4_Witness ==
    \E c \in CallIds : send[c] = "ok" /\ TimedOut(c) /\ ~ReplyDelivered(c)

\* C5: once the caller holds the send error, the call has no entry in the callback map
\* and its deadline timer is no longer armed.
C5_SendFailureCleansUp ==
    \A c \in CallIds : SendErrored(c) => ~InSomeMap(c) /\ timer[c] = "cleared"

\* a call rejected with the send error
C5_Witness ==
    \E c \in CallIds : SendErrored(c) /\ send[c] = "failed"

\* C6: whatever the number of request() calls, channel.consume is invoked on the reply
\* destination once, by the first call, and at most one consumer exists; later calls,
\* also those made while the setup is in flight, reuse it.
C6_OneSubscription ==
    /\ subscriptions <= 1
    /\ issued = 0 => setupBy = {}
    /\ issued >= 1 => setupBy = {1}

\* the second call passed getReplyQueue and sent its request while the setup started by
\* the first call was still in flight
C6_Witness ==
    /\ issued = 2
    /\ setupBy = {1}
    /\ pc[1] = "awaitConsume"
    /\ pc[2] = "suspended"

\* C7: a delivery whose correlationId has no entry in the callback map changes no promise,
\* no timer and no callback map.
C7_UnknownReplyDropped ==
    [][\A a \in CallIds \cup {ForeignCorrelationId}, content \in ReplyContents :
          (ReplyArrives(a, content) /\ a \notin Callbacks) =>
              UNCHANGED <<outcome, timer, mapObj, rpcQueues>>]_vars

\* a reply after the timeout, and a reply for another engine, while some call is pending
C7_Witness ==
    /\ \E c \in CallIds : TimedOut(c) /\ ReplyDelivered(c)
    /\ \E m \in delivered : m.correlationId = ForeignCorrelationId /\ m # NullMessage
    /\ Callbacks # {}

\* C8: when a call ends in its timeout or in a send error, every other pending call keeps
\* its entry, its armed timer and its pending promise, and its own reply still resolves it.
C8_FailureIsLocal ==
    [][\A a \in CallIds :
          (TimerFires(a) \/ SendFail(a)) =>
              \A b \in Callbacks \ {a} :
                  /\ b \in Callbacks'
                  /\ timer'[b] = timer[b]
                  /\ outcome'[b] = outcome[b]
                  /\ ReplyTargets(Callbacks', b) = {b}]_vars

\* one call ended in its timeout (or in a send error) while another one is still pending
\* with its entry and its armed timer
C8_Witness ==
    \E a, b \in CallIds :
        /\ TimedOut(a) \/ SendErrored(a)
        /\ send[a] = "failed"
        /\ b \in Callbacks /\ timer[b] = "armed" /\ outcome[b].state = "pending"

----------------------------------------------------------------------------
(***************************************************************************)
(* Liveness registry: properties.                                          *)
(***************************************************************************)
\* the positions of the records of getAllServices() that carry this instance's id
SelfRecords(all) == {i \in 1..Len(all) : all[i].serviceId = Self}

\* C9: in the state in which a successful onModuleInit() returns, getAllServices() holds
\* exactly one record with this instance's serviceId, and its status is healthy.
C9_SelfRegisteredAfterInit ==
    [][(initResult # "ok" /\ initResult' = "ok") =>
          /\ Cardinality(SelfRecords(getAllServices')) = 1
          /\ \A i \in SelfRecords(getAllServices') : getAllServices'[i].status = "healthy"]_vars

\* onModuleInit() succeeded after a peer announced itself during the setup, and no timer
\* has fired since
C9_Witness ==
    /\ initResult = "ok"
    /\ Len(services) = 2
    /\ services[1].serviceId = "p1"
    /\ services[2].serviceId = Self
    /\ services[2].serviceName = "orders"
    /\ services[2].status = "healthy"
    /\ services[2].lastHeartbeat = Date(0)
    /\ heartbeatDue = now + DefaultHeartbeatInterval

\* C10: a discovery event of any type that carries this instance's own serviceId leaves
\* the services map unchanged.
C10_OwnEventsIgnored ==
    [][\A type \in ServiceDiscoveryEventType, status \in EventStatuses, ms \in 0..MaxTime :
          HandleEvent(type, Self, status, ms) => services' = services]_vars

\* the own deregistered event was echoed back while the own record is in the table
C10_Witness ==
    /\ lastEvent.type = SERVICE_DEREGISTERED
    /\ lastEvent.serviceId = Self
    /\ isRegistered
    /\ MapHas(services, Self)
    /\ Len(services) = 2

\* the records of a table other than the one of id
Others(all, id) == SelectSeq(all, LAMBDA s : s.serviceId # id)

\* C11: a deregistered event for a peer id leaves no record of that peer in the table,
\* whatever the record's age and status were, and leaves every other record as it was;
\* when the table holds no record of that id (a duplicate, or an id never seen) the
\* table is unchanged.
C11_DeregisteredRemoves ==
    [][\A p \in Peers :
          HandleEvent(SERVICE_DEREGISTERED, p, "healthy", now) =>
             /\ ~MapHas(services', p)
             /\ Others(services', p) = Others(services, p)
             /\ ~MapHas(services, p) => services' = services]_vars

\* the deregistered event of a peer removed a record that the sweep would not have
\* touched (unhealthy, heartbeat of this instant), the own record staying in the table
C11_Witness ==
    /\ lastEvent.type = SERVICE_DEREGISTERED
    /\ lastEvent.serviceId = "p1"
    /\ lastEvent.prev # NoInfo
    /\ lastEvent.prev.status = "unhealthy"
    /\ lastEvent.prev.lastHeartbeat.ms = now
    /\ ~MapHas(services, "p1")
    /\ MapHas(services, Self)

\* the age the sweep computes for a record: now minus the instant of its lastHeartbeat
AgeOf(service) == now - service.lastHeartbeat.ms

\* C12: on each sweep, a record older than serviceTimeout is deleted; a record older than
\* serviceTimeout/2 and not older than serviceTimeout is unhealthy afterwards and still in
\* the table; a record of age at most serviceTimeout/2 is left as it was.
C12_SweepThresholds ==
    [][CleanupTick =>
          \A i \in 1..Len(services) :
             LET service == services[i]
                 id == service.serviceId
             IN /\ AgeOf(service) > serviceTimeout => ~MapHas(services', id)
                /\ (2 * AgeOf(service) > serviceTimeout /\ AgeOf(service) <= serviceTimeout) =>
                      /\ MapHas(services', id)
                      /\ MapGet(services', id) = [service EXCEPT !.status = "unhealthy"]
                /\ 2 * AgeOf(service) <= serviceTimeout =>
                      /\ MapHas(services', id)
                      /\ MapGet(services', id) = service]_vars

C14_LastHeartbeatMonotone ==
    [][\A id \in Peers \cup {Self} :
          (MapHas(services, id) /\ MapHas(services', id)) =>
             MapGet(services', id).lastHeartbeat.ms >= MapGet(services, id).lastHeartbeat.ms]_vars

\* onModuleDestroy was called on a registered registry and has returned
StopReturned == destroyResult \in {"stopped", "caught"}

\* C15: once onModuleDestroy() has returned on a registered registry, the deregistered
\* event for self has been handed to publish and both periodic timers are cancelled, so
\* that no heartbeat is published and no sweep runs afterwards.
C15_StopCancelsTimers ==
    StopReturned =>
       /\ SERVICE_DEREGISTERED \in published
       /\ heartbeatInterval = "unset"
       /\ cleanupInterval = "unset"

\* C16: onModuleDestroy() called while self is not registered (before the start, after a
\* start that failed, after a completed stop) returns at its guard: it hands nothing to
\* the broker and leaves the table, the registration flag, the subscription and both
\* timers as they were.
C16_StopWhenUnregisteredIsNoOp ==
    [][(OnModuleDestroy /\ ~isRegistered) =>
          /\ destroyResult' = "skipped"
          /\ UNCHANGED <<services, isRegistered, consuming, published, busOps, destroyPc,
                         heartbeatInterval, cleanupInterval, heartbeatDue, cleanupDue,
                         initPc, initResult>>]_vars

\* onModuleDestroy() was called a second time, after the stop of a started registry had
\* completed
C16_Witness ==
    /\ destroyResult = "skipped"
    /\ enabled
    /\ initResult = "ok"
    /\ ~isRegistered
    /\ published = {SERVICE_REGISTERED, SERVICE_DEREGISTERED}
    /\ services = <<>>

\* a setup step of onModuleInit() fails: the await rejects and the function ends
SetupStepFails == initPc \in SetupSteps /\ initPc' = "done"

\* C17 as stated: when a setup step of onModuleInit() fails (exchange assertion, queue
\* assertion, binding, consume setup), the promise of onModuleInit() rejects.
C17_SetupFailureSurfaced ==
    [][SetupStepFails => onModuleInitSettled' = "rejected"]_vars

\* C17 amended: when a setup step of onModuleInit() fails, the error is caught and logged
\* inside onModuleInit(), whose promise is fulfilled; the registry is left unregistered,
\* without an own record and without an armed timer.
C17_SetupFailureCaught ==
    [][SetupStepFails =>
          /\ onModuleInitSettled' = "fulfilled"
          /\ initResult' = "failed"
          /\ ~isRegistered'
          /\ ~MapHas(services', Self)
          /\ heartbeatInterval' = "unset"
          /\ cleanupInterval' = "unset"]_vars

\* the binding of the discovery queue failed: onModuleInit() has returned, nothing was
\* subscribed or published
C17_Witness ==
    /\ initPc = "done"
    /\ initResult = "failed"
    /\ busOps = {"assertExchange", "assertQueue", "bindQueue"}
    /\ ~consuming
    /\ published = {}
    /\ onModuleInitSettled = "fulfilled"

\* C18: a rejected heartbeat publish leaves the heartbeat timer armed for its next
\* expiry; as long as self is registered the timer stays armed after a failure, and
\* every firing of it on a registered registry hands a heartbeat to publish again.
C18_HeartbeatLoopSurvivesFailure ==
    [][/\ HeartbeatTick(FALSE) =>
             /\ heartbeatInterval' = "armed"
             /\ heartbeatDue' = heartbeatDue + DefaultHeartbeatInterval
       /\ (heartbeatLog'.failed /\ isRegistered') => heartbeatInterval' = "armed"
       /\ (heartbeatLog.failed /\ MapHas(services, Self) /\ heartbeatDue' # heartbeatDue
             /\ heartbeatInterval' = "armed") =>
             /\ heartbeatLog'.last \in {"ok", "failed"}
             /\ SERVICE_HEARTBEAT \in published'
             /\ MapGet(services', Self).lastHeartbeat = Date(now)]_vars

\* a heartbeat publish was rejected and a later tick published a heartbeat
C18_Witness ==
    /\ heartbeatLog = [failed |-> TRUE, last |-> "ok"]
    /\ heartbeatInterval = "armed"
    /\ isRegistered
    /\ MapGet(services, Self).lastHeartbeat = Date(now)
    /\ now >= 2

\* C19: a peer that went silent without deregistering is removed by the sweep: a sweep
\* that finds the peer's record older than serviceTimeout deletes it, and a record of a
\* peer only comes (back) into the table through a registered or heartbeat event of that
\* peer.
C19_CrashedPeerSwept ==
    [][/\ CleanupTick =>
             \A p \in Peers :
                (MapHas(services, p) /\ AgeOf(MapGet(services, p)) > serviceTimeout) =>
                   ~MapHas(services', p)
       /\ \A p \in Peers :
             (~MapHas(services, p) /\ MapHas(services', p)) =>
                /\ lastEvent'.serviceId = p
                /\ lastEvent'.type \in {SERVICE_REGISTERED, SERVICE_HEARTBEAT}]_vars

\* C20: two registries on one discovery exchange learn each other from their heartbeats:
\* a heartbeat a running peer publishes while this instance is subscribed leaves a healthy
\* record of the peer in this instance's table, and the heartbeats this instance publishes
\* are routed to a peer's queue, which is bound as this instance's is.
C20_PeersLearnEachOther ==
    [][/\ \A q \in Peers :
             PeerBroadcast(SERVICE_HEARTBEAT, q) =>
                /\ MapHas(services', q)
                /\ MapGet(services', q).status = "healthy"
       /\ (HeartbeatTick(TRUE) /\ MapHas(services, Self)) =>
             TopicMatches(BindingPattern, getRoutingKey(SERVICE_HEARTBEAT))]_vars

----------------------------------------------------------------------------
(***************************************************************************)
(* The registry: the query methods.                                        *)
(***************************************************************************)
\* a record satisfies every predicate a filter supplies: equal serviceName, version and
\* status, one of the filter's tags among its tags, every metadata entry of the filter
\* equal in its metadata; a field left out, an empty tags list and an empty metadata
\* object supply no predicate
Satisfies(s, filter) ==
    \/ filter = NoFilter
    \/ /\ filter.serviceName.defined => s.serviceName = filter.serviceName.value
       /\ filter.version.defined => s.version = filter.version.value
       /\ filter.status.defined => s.status = filter.status.value
       /\ (filter.tags.defined /\ filter.tags.value # <<>>) =>
             /\ s.tags.defined
             /\ \E i \in 1..Len(filter.tags.value) : Includes(s.tags.value, filter.tags.value[i])
       /\ (filter.metadata.defined /\ filter.metadata.value # {}) =>
             /\ s.metadata.defined
             /\ \A e \in filter.metadata.value : e \in s.metadata.value

\* C21: getServices(filter) returns exactly the records of the table that satisfy every
\* predicate the filter supplies, in the order of the table.
C21_FilterExact ==
    lastQuery.op = "getServices" =>
       lastQuery.result = SelectSeq(services, LAMBDA s : Satisfies(s, lastQuery.arg))

\* the number of records of the table with a name
CountNamed(name) == Cardinality({i \in 1..Len(services) : services[i].serviceName = name})

\* C22: the derived queries agree with the table: getHealthyServices(name) is the healthy
\* records with that name (all healthy records without a name), getServiceCount() is the
\* size of the table, getServiceCount(name) the number of records with that name,
\* hasService(name) holds iff that number is positive, and getServiceById(id) is the record
\* with that id iff the table has one.
C22_DerivedQueriesAgree ==
    /\ getHealthyServices(Omitted) = SelectSeq(services, LAMBDA s : s.status = "healthy")
    /\ getServiceCount(Omitted) = Len(services)
    /\ \A name \in QueryNameArgs :
          /\ getHealthyServices(Given(name))
                = SelectSeq(services, LAMBDA s : s.status = "healthy" /\ s.serviceName = name)
          /\ getServiceCount(Given(name)) = CountNamed(name)
          /\ hasService(name) <=> CountNamed(name) > 0
    /\ \A id \in QueryIds :
          getServiceById(id)
             = IF \E i \in 1..Len(services) : services[i].serviceId = id
               THEN Given(services[CHOOSE i \in 1..Len(services) : services[i].serviceId = id])
               ELSE Omitted

\* C23: getRandomHealthyService(name) returns undefined iff getHealthyServices(name) is
\* empty, otherwise a member of getHealthyServices(name); and every member of
\* getHealthyServices(name) is a result the call can return.
C23_RandomPicksAnyHealthy ==
    /\ lastQuery.op = "getRandomHealthyService" =>
          LET healthy == getHealthyServices(Given(lastQuery.arg))
          IN /\ lastQuery.result = Omitted <=> healthy = <<>>
             /\ lastQuery.result # Omitted =>
                   \E i \in 1..Len(healthy) : lastQuery.result.value = healthy[i]
    /\ lastQuery = NoQuery =>
          \A name \in QueryNameArgs :
             LET healthy == getHealthyServices(Given(name))
             IN \A i \in 1..Len(healthy) :
                   ENABLED (QueryRandom(name) /\ lastQuery'.result = Given(healthy[i]))

\* the call returned the later of two healthy records of the name
C23_Witness ==
    /\ lastQuery.op = "getRandomHealthyService"
    /\ Len(getHealthyServices(Given(lastQuery.arg))) = 2
    /\ lastQuery.result = Given(getHealthyServices(Given(lastQuery.arg))[2])

\* no record of the table answers the last query
NothingMatches ==
    LET named(name) == \E i \in 1..Len(services) : services[i].serviceName = name
        healthy(arg) == \E i \in 1..Len(services) :
                           /\ services[i].status = "healthy"
                           /\ arg.defined => services[i].serviceName = arg.value
    IN CASE lastQuery.op = "getAllServices" -> services = <<>>
         [] lastQuery.op = "getServices" ->
               \A i \in 1..Len(services) : ~Satisfies(services[i], lastQuery.arg)
         [] lastQuery.op = "getHealthyServices" -> ~healthy(lastQuery.arg)
         [] lastQuery.op = "getRandomHealthyService" -> ~healthy(Given(lastQuery.arg))
         [] lastQuery.op = "getServiceCount" ->
               IF lastQuery.arg.defined THEN ~named(lastQuery.arg.value) ELSE services = <<>>
         [] lastQuery.op = "hasService" -> ~named(lastQuery.arg)
         [] lastQuery.op = "getServiceById" -> ~MapHas(services, lastQuery.arg)
         [] OTHER -> FALSE

\* what a query returns for nothing: an empty array, 0, false or undefined
EmptyResult ==
    CASE lastQuery.op \in {"getAllServices", "getServices", "getHealthyServices"} -> <<>>
      [] lastQuery.op \in {"getRandomHealthyService", "getServiceById"} -> Omitted
      [] lastQuery.op = "getServiceCount" -> 0
      [] lastQuery.op = "hasService" -> FALSE

\* C24: a query never changes the registry table, and on an empty table or when nothing
\* matches it returns an empty array, 0, false or undefined.
C24_QueriesReadOnly ==
    [][lastQuery' # NoQuery =>
          /\ services' = services
          /\ NothingMatches' => lastQuery'.result = EmptyResult']_vars

----------------------------------------------------------------------------
(***************************************************************************)
(* Consumer callbacks: properties.                                         *)
(***************************************************************************)
\* the callback of a registered RPC handler is through with a request that has a replyTo
RpcRequestDone ==
    /\ delivery.pc = "done"
    /\ delivery.via = "rpc"
    /\ ~delivery.msg.isNull
    /\ delivery.msg.replyTo.defined

\* the handler returned and nothing after it threw
RpcReplied ==
    /\ delivery.handler.state = "returned"
    /\ delivery.handler.sendOk

Encodable(value) == value # "BigInt(1)"

\* what the requester reads from the reply to a handler's return value: the value itself
\* for a JSON value, null for undefined, the ISO string for a Date, the text for a Buffer
Decoded(value) ==
    CASE value \in {"Object{r:1}", "Number(3)", "pong"} -> value
      [] value = "undefined" -> "null"
      [] value = "Date(0)" -> "1970-01-01T00:00:00.000Z"
      [] value = "Buffer(pong)" -> "pong"

C26_ConsumeAckOrNack ==
    (delivery.pc # "idle" /\ delivery.via = "consume") =>
       IF delivery.msg.isNull
       THEN delivery.calls = 0 /\ delivery.acks = <<>>
       ELSE /\ delivery.calls = 1
            /\ delivery.pc = "handler" => delivery.acks = <<>>
            /\ (delivery.pc = "done" /\ delivery.handler.state = "completed") =>
                  delivery.acks = <<Ack>>
            /\ (delivery.pc = "done" /\ delivery.handler.state = "threw") =>
                  delivery.acks = <<Nack(FALSE, FALSE)>>
            /\ delivery.pc = "done" => delivery.handler.state \in {"completed", "threw"}

\* a message whose handler threw was nacked
C26_Witness ==
    /\ delivery.pc = "done"
    /\ delivery.via = "consume"
    /\ ~delivery.msg.isNull
    /\ delivery.handler.state = "threw"
    /\ delivery.acks = <<Nack(FALSE, FALSE)>>

----------------------------------------------------------------------------
(***************************************************************************)
(* The registry: lifecycle with the option enabled = false.                *)
(***************************************************************************)
\* C27: with enabled = false, onModuleInit and onModuleDestroy perform no bus operation,
\* start no timer and leave the registry table empty.
C27_DisabledDoesNothing ==
    ~enabled =>
       /\ busOps = {}
       /\ published = {}
       /\ ~consuming
       /\ heartbeatInterval = "unset"
       /\ cleanupInterval = "unset"
       /\ services = <<>>
       /\ ~isRegistered

\* a disabled registry went through onModuleInit and onModuleDestroy
C27_Witness ==
    /\ ~enabled
    /\ initResult = "disabled"
    /\ destroyResult = "skipped"
    /\ busOps = {}
    /\ services = <<>>

----------------------------------------------------------------------------
(***************************************************************************)
(* RPC correlation engine: the reply subscription and the pending table.   *)
(***************************************************************************)
\* C28: no request message is sent to a destination queue unless the subscription on the
\* reply destination has been established before.
C28_SendOnlyAfterSubscribed ==
    \A c \in CallIds : send[c] # "none" => subscriptions > 0

\* C29: a correlationId has an entry in the pending table if and only if its deadline
\* timer is armed and its caller has not been resumed.
C29_PendingIffArmedAndWaiting ==
    \A c \in CallIds :
       (rpcQueues # NoMap /\ c \in mapObj[rpcQueues])
          <=> (timer[c] = "armed" /\ outcome[c].state = "pending")

----------------------------------------------------------------------------
(***************************************************************************)
(* The registry: order of the events it publishes about itself.            *)
(***************************************************************************)
\* the heartbeat timer fires and a heartbeat event for self is handed to the bus
HeartbeatPublished ==
    /\ MapHas(services, Self)
    /\ \E ok \in BOOLEAN : HeartbeatTick(ok)

\* C30: once the deregistered event for self has been handed to the bus, no heartbeat for
\* self is published any more.
C30_NoHeartbeatAfterDeregistered ==
    [][(SERVICE_DEREGISTERED \in published) => ~HeartbeatPublished]_vars

----------------------------------------------------------------------------
(***************************************************************************)
(* The registry: what onModuleInit leaves behind.                          *)
(***************************************************************************)
\* every part of the registry is active: the discovery subscription, the own record,
\* both timers
AllActive ==
    /\ consuming
    /\ MapHas(services, Self)
    /\ heartbeatInterval = "armed"
    /\ cleanupInterval = "armed"

\* no part of the registry is active
NoneActive ==
    /\ ~consuming
    /\ ~MapHas(services, Self)
    /\ heartbeatInterval = "unset"
    /\ cleanupInterval = "unset"

\* C31: when onModuleInit() returns, the registry is not half-initialized: either the
\* subscription, the own record and both timers are all active, or none of them is.
C31_NeverHalfInitialized ==
    [][(initPc # "done" /\ initPc' = "done") => (AllActive' \/ NoneActive')]_vars

\* onModuleInit() ends because the consume setup or the registration publish rejected
LateStepFails ==
    /\ initPc \in {"consume", "publish"}
    /\ initPc' = "done"
    /\ initResult' # "ok"

\* C32: onModuleInit() never rejects: when the consume setup or the registration publish
\* fails its promise is still fulfilled and self is left unregistered, and an
\* onModuleDestroy() that follows hands nothing to the bus.
C32_InitNeverRejects ==
    [][/\ onModuleInitSettled' # "rejected"
       /\ LateStepFails =>
             /\ onModuleInitSettled' = "fulfilled"
             /\ ~isRegistered'
       /\ (OnModuleDestroy /\ initResult = "failed") =>
             /\ published' = published
             /\ busOps' = busOps]_vars

\* the registration publish was rejected, onModuleInit() returned, and onModuleDestroy()
\* was then called and returned at its guard
C32_Witness ==
    /\ initResult = "failed"
    /\ onModuleInitSettled = "fulfilled"
    /\ "publish" \in busOps
    /\ ~isRegistered
    /\ destroyResult = "skipped"
    /\ SERVICE_DEREGISTERED \notin published

----------------------------------------------------------------------------
(***************************************************************************)
(* The registry: the event handler on any table.                           *)
(***************************************************************************)
\* a registered or heartbeat event of a peer was applied
PeerUpsert ==
    /\ lastEvent.type \in {SERVICE_REGISTERED, SERVICE_HEARTBEAT}
    /\ ~lastEvent.threw
    /\ lastEvent.serviceId # Self

\* the table holds at most one record per serviceId
OnePerServiceId ==
    \A i, j \in 1..Len(services) : services[i].serviceId = services[j].serviceId => i = j

\* the table is the one before the event, but for the record at index i
SameButAt(i) ==
    /\ Len(services) = Len(lastEvent.before)
    /\ \A j \in 1..Len(services) : j # i => services[j] = lastEvent.before[j]

\* C33 as stated: a registered or heartbeat event of a peer inserts the event's record
\* when the id is absent; when the id is present only lastHeartbeat and status of the
\* stored record change. The table holds at most one record per serviceId.
C33_UpsertInPlace ==
    /\ OnePerServiceId
    /\ PeerUpsert =>
          LET before == lastEvent.before
              id == lastEvent.serviceId
          IN IF MapHas(before, id)
             THEN /\ SameButAt(MapIndex(before, id))
                  /\ [MapGet(services, id) EXCEPT
                         !.lastHeartbeat = MapGet(before, id).lastHeartbeat,
                         !.status = MapGet(before, id).status] = MapGet(before, id)
             ELSE services = Append(before, lastEvent.service.value)

\* C33 as the code has it: for an absent id the event's record is inserted; for a present
\* id a heartbeat event copies lastHeartbeat and status of the event into the stored
\* record and leaves its other fields, while a registered event replaces the stored
\* record by the event's record, at its place. The table holds at most one record per
\* serviceId.
C33_UpsertHeartbeatInPlace ==
    /\ OnePerServiceId
    /\ PeerUpsert =>
          LET before == lastEvent.before
              id == lastEvent.serviceId
              service == lastEvent.service.value
          IN IF MapHas(before, id)
             THEN /\ SameButAt(MapIndex(before, id))
                  /\ MapGet(services, id) =
                        IF lastEvent.type = SERVICE_HEARTBEAT
                        THEN [MapGet(before, id) EXCEPT
                                 !.lastHeartbeat = service.lastHeartbeat,
                                 !.status = service.status]
                        ELSE service
             ELSE services = Append(before, service)

\* a heartbeat event changed lastHeartbeat and status of a stored record whose name,
\* version, tags and metadata differ from those of the event
C33_Witness ==
    /\ PeerUpsert
    /\ lastEvent.type = SERVICE_HEARTBEAT
    /\ MapHas(lastEvent.before, lastEvent.serviceId)
    /\ LET old == MapGet(lastEvent.before, lastEvent.serviceId)
           new == MapGet(services, lastEvent.serviceId)
           service == lastEvent.service.value
       IN /\ new.lastHeartbeat # old.lastHeartbeat
          /\ new.status # old.status
          /\ new.serviceName = old.serviceName /\ service.serviceName # old.serviceName
          /\ new.version = old.version /\ service.version # old.version
          /\ new.tags = old.tags /\ service.tags # old.tags
          /\ new.metadata = old.metadata /\ service.metadata # old.metadata

\* C34: for a serviceId that is not in the table, a heartbeat event yields exactly the
\* table that a registered event with the same service record yields.
C34_UnknownHeartbeatRegisters ==
    (/\ lastEvent.type = SERVICE_HEARTBEAT
     /\ ~lastEvent.threw
     /\ ~MapHas(lastEvent.before, lastEvent.serviceId)) =>
       /\ services = handleServiceEvent(lastEvent.before, SERVICE_REGISTERED,
                                        lastEvent.service.value)
       /\ lastEvent.serviceId # Self =>
             services = Append(lastEvent.before, lastEvent.service.value)

\* a heartbeat of a peer that was not in the table put the peer's record after the own
C34_Witness ==
    /\ lastEvent.type = SERVICE_HEARTBEAT
    /\ lastEvent.serviceId \in Peers
    /\ lastEvent.before = <<getCurrentServiceInfo>>
    /\ services = <<getCurrentServiceInfo, lastEvent.service.value>>

\* C38: an event whose type is not registered, heartbeat or deregistered, or that has no
\* service field, is ignored: the handler raises no error and the table is unchanged.
C38_UnknownEventsIgnored ==
    (\/ lastEvent.type \in {SERVICE_HEALTHY, SERVICE_UNHEALTHY}
     \/ lastEvent.type # "none" /\ ~lastEvent.service.defined) =>
       /\ ~lastEvent.threw
       /\ services = lastEvent.before

----------------------------------------------------------------------------
(***************************************************************************)
(* The registry: the own record, the routing of the events, the sweep.     *)
(***************************************************************************)
\* C35: while self is registered, the own record is in the table with status healthy: the
\* sweep neither demotes nor evicts it.
C35_SelfStaysHealthy ==
    isRegistered =>
       /\ MapHas(services, Self)
       /\ MapGet(services, Self).status = "healthy"

\* C36: every discovery event the registry publishes has a routing key that matches the
\* pattern with which a peer binds its discovery queue, so the event reaches the peer.
C36_PublishedEventsRouted ==
    [][\A type \in (published' \ published) :
          TopicMatches(BindingPattern, getRoutingKey(type))]_vars

\* C37: an error raised while a sweep runs is caught inside the sweep timer callback: no
\* exception leaves the callback.
C37_SweepErrorCaught ==
    [][CleanupTick => ~sweepThrew']_vars

====
